---------------------------- MODULE Spec2Model ----------------------------
(***************************************************************************)
(* A model of the single-connection cTrader trade copier                   *)
(* (src/trade_copier_single.py, class SingleConnectionTradeCopier) with    *)
(* the configuration of src/config.py.                                     *)
(*                                                                         *)
(* The copier is a single-threaded callback machine on one connection.     *)
(* Every action below is one callback of the class, taken as a whole,      *)
(* together with the step of the trading server that triggers it.  The     *)
(* server (the authorisation state, price feed, the destination account's  *)
(* position book) is the environment.                                      *)
(*                                                                         *)
(* Conventions.                                                            *)
(*  - Python None and a falsy number are both written 0 where the code     *)
(*    only tests truthiness (symbolId, volume, depositAssetId); a trade    *)
(*    side that is None is the string "None".                              *)
(*  - An optional sub-record (order, deal, tradeData, closePositionDetail) *)
(*    carries a `present' flag.                                            *)
(*  - Floats are exact rationals [num, den] here; the rounding error of    *)
(*    IEEE doubles is not modelled.                                        *)
(***************************************************************************)
EXTENDS Integers, Sequences, FiniteSets, Bags, TLC

VARIABLES
    is_connected,             \* self.is_connected
    is_app_authorized,        \* self.is_app_authorized
    master_authorized,        \* self.master_authorized
    slave_authorized,         \* self.slave_authorized
    master_symbols,           \* self.master_symbols : symbol id -> SymbolData
    slave_symbols,            \* self.slave_symbols
    master_assets,            \* keys of self.master_assets
    slave_assets,             \* keys of self.slave_assets
    master_deposit_asset_id,  \* self.master_deposit_asset_id (0 = None)
    slave_deposit_asset_id,   \* self.slave_deposit_asset_id  (0 = None)
    master_data_loaded,       \* self.master_data_loaded
    slave_data_loaded,        \* self.slave_data_loaded
    pip_values_cache,         \* self.pip_values_cache : symbol id -> pair
    symbol_volume_ratio,      \* self.symbol_volume_ratio : symbol id -> ratio
    inflight,                 \* requests sent and not yet answered (a bag)
    subscribed,               \* server side: spot subscriptions <<account, id>>
    slave_positions,          \* server side: open positions of the destination
    next_position_id,         \* server side: id of the next position
    connects,                 \* how many times the connection was established
    fills,                    \* how many source fill events were delivered
    sent,                     \* requests emitted by the last callback
    last,                     \* what the last callback did
    websocket,                \* trade_copier.py: messages the destination's
                              \* websocket has received and nobody has read
    master_trade              \* trade_copier.py: the _handle_master_trade
                              \* coroutine, idle or awaiting in get_balance

authVars == <<is_connected, is_app_authorized, master_authorized, slave_authorized>>
dataVars == <<master_symbols, slave_symbols, master_assets, slave_assets,
              master_deposit_asset_id, slave_deposit_asset_id,
              master_data_loaded, slave_data_loaded>>
tradeVars == <<pip_values_cache, symbol_volume_ratio>>
serverVars == <<subscribed, slave_positions, next_position_id>>
wsVars == <<websocket, master_trade>>
vars == <<authVars, dataVars, tradeVars, serverVars, inflight, connects, fills,
          sent, last, wsVars>>

---------------------------------------------------------------------------
(* Bounds of the model. *)

\* Connections established in one run (the first connect plus reconnects).
MaxConnects == 1
\* Source fill events delivered in one run.
MaxFills == 3
\* Source fill events delivered in one run of the classifier's specification.
MaxClassified == 1
\* Depth at which the interpreter raises RecursionError.
RecursionLimit == 2

(* Configuration (src/config.py). *)
MIN_LOT_SIZE == 100
MAX_LOT_MULTIPLIER == 2
\* DYNAMIC_PIP_VOLUME_RATIO = 0.5
DYNAMIC_PIP_VOLUME_RATIO == [num |-> 1, den |-> 2]

\* LOT_SIZE_MULTIPLIERS, for the names of id_to_symbol it lists.
LOT_SIZE_MULTIPLIERS ==
    [n \in {"EURUSD", "GBPUSD", "USDJPY", "USDCHF", "AUDUSD", "USDCAD",
            "NZDUSD", "XAUUSD", "XAGUSD", "BTCUSD", "ETHUSD", "US30",
            "SPX500", "NAS100", "CRUDE", "BRENT"} |->
        CASE n = "XAUUSD" -> [num |-> 1, den |-> 4]
          [] n \in {"US30", "SPX500", "NAS100", "BTCUSD"} -> [num |-> 1, den |-> 10]
          [] n = "ETHUSD" -> [num |-> 1, den |-> 5]
          [] OTHER -> [num |-> 1, den |-> 2]]
\* DEFAULT_LOT_MULTIPLIER = 0.5
DEFAULT_LOT_MULTIPLIER == [num |-> 1, den |-> 2]
\* GLOBAL_LOT_MULTIPLIER = None
GLOBAL_LOT_MULTIPLIER == [set |-> FALSE, num |-> 0, den |-> 1]

Accounts == {"master", "slave"}

---------------------------------------------------------------------------
(* Arithmetic helpers. *)

Max(a, b) == IF a >= b THEN a ELSE b

RECURSIVE Pow10(_)
Pow10(n) == IF n <= 0 THEN 1 ELSE 10 * Pow10(n - 1)

RECURSIVE Gcd(_, _)
Gcd(a, b) == IF b = 0 THEN a ELSE Gcd(b, a % b)

\* A non-negative rational in lowest terms.
Rat(n, d) == LET g == Gcd(n, d) IN [num |-> n \div g, den |-> d \div g]

\* int(x) of a non-negative rational: truncation.
Trunc(r) == r.num \div r.den

---------------------------------------------------------------------------
(* The static id/name tables of the copier. *)

\* symbol_map of _get_symbol_id.
symbol_map ==
    [n \in {"EURUSD", "GBPUSD", "USDJPY", "USDCHF", "AUDUSD", "USDCAD",
            "NZDUSD", "XAUUSD", "GOLD", "XAGUSD", "SILVER", "BTCUSD",
            "ETHUSD", "US30", "SPX500", "NAS100", "CRUDE", "BRENT"} |->
        CASE n = "EURUSD" -> 1  [] n = "GBPUSD" -> 2  [] n = "USDJPY" -> 3
          [] n = "USDCHF" -> 4  [] n = "AUDUSD" -> 5  [] n = "USDCAD" -> 6
          [] n = "NZDUSD" -> 7  [] n = "XAUUSD" -> 41 [] n = "GOLD" -> 41
          [] n = "XAGUSD" -> 42 [] n = "SILVER" -> 42 [] n = "BTCUSD" -> 43
          [] n = "ETHUSD" -> 44 [] n = "US30" -> 45   [] n = "SPX500" -> 46
          [] n = "NAS100" -> 47 [] n = "CRUDE" -> 48  [] n = "BRENT" -> 49]

\* id_to_symbol of _get_symbol_name.
id_to_symbol ==
    [i \in (1..7) \cup (41..49) |->
        CASE i = 1 -> "EURUSD"  [] i = 2 -> "GBPUSD"  [] i = 3 -> "USDJPY"
          [] i = 4 -> "USDCHF"  [] i = 5 -> "AUDUSD"  [] i = 6 -> "USDCAD"
          [] i = 7 -> "NZDUSD"  [] i = 41 -> "XAUUSD" [] i = 42 -> "XAGUSD"
          [] i = 43 -> "BTCUSD" [] i = 44 -> "ETHUSD" [] i = 45 -> "US30"
          [] i = 46 -> "SPX500" [] i = 47 -> "NAS100" [] i = 48 -> "CRUDE"
          [] i = 49 -> "BRENT"]

\* f"SYMBOL_{symbol_id}" for the ids outside the table that the model uses.
FormatSymbol(i) ==
    CASE i = 50 -> "SYMBOL_50" [] i = 60 -> "SYMBOL_60" [] OTHER -> "SYMBOL_?"

\* _get_symbol_name: id_to_symbol.get(symbol_id, f"SYMBOL_{symbol_id}").
GetSymbolName(symbol_id) ==
    IF symbol_id \in DOMAIN id_to_symbol THEN id_to_symbol[symbol_id]
    ELSE FormatSymbol(symbol_id)

\* _get_symbol_id: symbol_map.get(symbol_name, <default>).  The default is
\* `symbol_id if isinstance(symbol_name, int) else 1'; the name is always a
\* string here, so the default is 1.
GetSymbolId(symbol_name) ==
    IF symbol_name \in DOMAIN symbol_map THEN symbol_map[symbol_name] ELSE 1

---------------------------------------------------------------------------
(* What the trading server knows (the environment's data). *)

\* Asset ids: 1 = USD, 2 = EUR.  Asset 99 is in no asset list.
ServerAssets(account) == {1, 2}

\* depositAssetId of the trader of each account.
ServerDepositAsset(account) == IF account = "master" THEN 1 ELSE 2

\* Symbols the server returns for ProtoOASymbolByIdReq, as the SymbolData the
\* copier builds of them (prices start at 0.0).  Prices are kept as the raw
\* fixed-point integers of the feed: current_bid = bid_raw / 10^digits.
SymbolData(digits, pip_position, lot_size, quote_asset_id, volume_step) ==
    [digits |-> digits, pip_position |-> pip_position, lot_size |-> lot_size,
     quote_asset_id |-> quote_asset_id, bid_raw |-> 0, ask_raw |-> 0,
     volume_step |-> volume_step]

ServerSymbols(account) ==
    IF account = "master"
    THEN [i \in {1, 41} |->
            IF i = 1 THEN SymbolData(1, 4, 100000, 1, 1000)
            ELSE SymbolData(2, 0, 84, 99, 100)]
    ELSE [i \in {1, 41} |->
            IF i = 1 THEN SymbolData(1, 4, 100000, 1, 1000)
            \* the destination's broker reports no step for symbol 41: 0
            ELSE SymbolData(2, 0, 79, 99, 0)]

\* Symbol ids requested by _subscribe_to_events: [1, 2, 3, 4, 5, 6, 7].
MajorPairs == 1..7

\* The price feed of the model: spot events of these symbols, with these raw
\* bid/ask pairs (0 = the field is not in the event).
SpotSymbolIds == {1, 2}
\* The accounts a spot event can name: the two of the copier and another one.
SpotAccounts == {"master", "slave", "other"}
SpotPrices == {<<11, 13>>, <<11, 0>>}

---------------------------------------------------------------------------
(* Execution events (ProtoOAExecutionEvent) and their classification. *)

NoTriple == [symbolId |-> 0, tradeSide |-> "None", volume |-> 0]
Triple(i, s, v) == [symbolId |-> i, tradeSide |-> s, volume |-> v]

\* closePositionDetail as the text str() makes of it: a sequence of characters.
NoDetail == [present |-> FALSE, text |-> <<>>]
Detail(t) == [present |-> TRUE, text |-> t]

NoTradeData == [present |-> FALSE, data |-> NoTriple]
NoOrder == [present |-> FALSE, closingOrder |-> FALSE, tradeData |-> NoTradeData]
NoDeal == [present |-> FALSE, data |-> NoTriple, closePositionDetail |-> NoDetail]

\* str.strip(): leading and trailing blanks removed.
RECURSIVE StripLeft(_)
StripLeft(t) == IF t # <<>> /\ Head(t) = " " THEN StripLeft(Tail(t)) ELSE t

RECURSIVE StripRight(_)
StripRight(t) ==
    IF t # <<>> /\ t[Len(t)] = " " THEN StripRight(SubSeq(t, 1, Len(t) - 1))
    ELSE t

Strip(t) == StripRight(StripLeft(t))

\* HasCloseDetail without the strip(): any text counts.
HasCloseDetailUnstripped(deal) ==
    /\ deal.closePositionDetail.present
    /\ deal.closePositionDetail.text # << >>

\* HasCloseDetail without the content test: the attribute being there counts.
HasCloseDetailIfPresent(deal) == deal.closePositionDetail.present

\* Lines 346-352: the deal's closePositionDetail exists, is not None and has
\* content after stripping.
HasCloseDetail(deal) ==
    /\ deal.closePositionDetail.present
    /\ Strip(deal.closePositionDetail.text) # <<>>

\* Lines 328-356: the local is_closing_order at the end of the field reading.
IsClosingOrder(ev) ==
    LET fromOrder == IF ev.order.present THEN ev.order.closingOrder ELSE FALSE
    IN  IF ev.deal.present /\ HasCloseDetail(ev.deal) THEN TRUE ELSE fromOrder

\* Lines 339-375: symbol_id, trade_side and volume as the handler resolves them:
\* from the deal when there is one, else from order.tradeData, and all three
\* from the event itself when the symbol id so found is falsy.
TradeDetails(ev) ==
    LET first ==
            IF ev.deal.present THEN ev.deal.data
            ELSE IF ev.order.present /\ ev.order.tradeData.present
                 THEN ev.order.tradeData.data
                 ELSE NoTriple
    IN  IF first.symbolId = 0 THEN ev.top ELSE first

\* DetailsComplete without the test of the side.
DetailsCompleteWithoutSide(t) == t.symbolId # 0 /\ t.volume # 0

\* Line 379: `if symbol_id and trade_side is not None and volume'.
DetailsComplete(t) == t.symbolId # 0 /\ t.tradeSide # "None" /\ t.volume # 0

---------------------------------------------------------------------------
(* Pip values (_calculate_pip_value). *)

\* None, and a value num/den.
NoValue == [ok |-> FALSE, num |-> 0, den |-> 1]
Value(r) == [ok |-> TRUE, num |-> r.num, den |-> r.den]

\* Python truthiness of a pip value: not None and not 0.0.
Truthy(pv) == pv.ok /\ pv.num # 0

\* QuoteAssetOf without the test of the asset dictionary.
QuoteAssetUnchecked(sd, asset_dict, deposit_asset_id) == sd.quote_asset_id

\* Lines 886-891: the quote asset of the symbol, the deposit asset when the
\* quote asset id is not in the asset dictionary.
QuoteAssetOf(sd, asset_dict, deposit_asset_id) ==
    IF sd.quote_asset_id \in asset_dict THEN sd.quote_asset_id
    ELSE deposit_asset_id

\* SameCurrencyPipValue that asks for a quote first.
SameCurrencyNeedsPrice(sd) ==
    IF sd.bid_raw = 0 \/ sd.ask_raw = 0 THEN NoValue
    ELSE Value(Rat(sd.lot_size, Pow10(sd.pip_position)))

\* Lines 894-902: pip_size * lot_size, pip_size = 1 / 10^pip_position.
SameCurrencyPipValue(sd) == Value(Rat(sd.lot_size, Pow10(sd.pip_position)))

\* ConvertedPipValue that tests the bid only.
ConvertedBidOnly(sd) ==
    IF sd.bid_raw = 0 THEN NoValue
    ELSE Value(Rat(sd.lot_size * 2 * Pow10(sd.digits),
                   Pow10(sd.pip_position) * (sd.bid_raw + sd.ask_raw)))

\* Lines 904-921: None without a bid or an ask, else
\* pip_size / mid_price * lot_size,
\* mid_price = (bid_raw + ask_raw) / 10^digits / 2.
ConvertedPipValue(sd) ==
    IF sd.bid_raw = 0 \/ sd.ask_raw = 0 THEN NoValue
    ELSE Value(Rat(sd.lot_size * 2 * Pow10(sd.digits),
                   Pow10(sd.pip_position) * (sd.bid_raw + sd.ask_raw)))

\* Lines 874-921 on the dictionaries of one account.
PipValueOf(symbol_dict, asset_dict, deposit_asset_id, symbol_id) ==
    IF symbol_id \notin DOMAIN symbol_dict THEN NoValue
    ELSE IF deposit_asset_id = 0 \/ deposit_asset_id \notin asset_dict THEN NoValue
    ELSE
      LET sd == symbol_dict[symbol_id]
          quote_asset == QuoteAssetOf(sd, asset_dict, deposit_asset_id)
      IN  IF quote_asset = deposit_asset_id
          THEN SameCurrencyPipValue(sd)
          ELSE ConvertedPipValue(sd)

\* _calculate_pip_value(symbol_id, account_type).
CalculatePipValue(symbol_id, account_type) ==
    IF account_type = "master"
    THEN PipValueOf(master_symbols, master_assets, master_deposit_asset_id, symbol_id)
    ELSE PipValueOf(slave_symbols, slave_assets, slave_deposit_asset_id, symbol_id)

---------------------------------------------------------------------------
(* Volume adjustment (_calculate_adjusted_volume and what it calls). *)

\* The result of a call that ends in an exception leaving the call (a call that
\* returns has raised = FALSE and the volume returned).
Raised == [raised |-> TRUE, volume |-> 0]

\* Lines 610 and 614 call self._calculate_simple_multiplier_volume, a method the
\* class does not define: the attribute lookup raises AttributeError.
CalculateSimpleMultiplierVolume(symbol, original_volume) == Raised

\* Lines 588-589: the two pip values _calculate_dynamic_pip_volume computes.
PipValuesFor(symbol_id) ==
    [symbol_id |-> symbol_id,
     master |-> CalculatePipValue(symbol_id, "master"),
     slave |-> CalculatePipValue(symbol_id, "slave")]

NoPipValues == [symbol_id |-> 0, master |-> NoValue, slave |-> NoValue]

\* Lines 593-601: both pip values are truthy.
PipValuesAvailable(symbol_id) ==
    /\ Truthy(CalculatePipValue(symbol_id, "master"))
    /\ Truthy(CalculatePipValue(symbol_id, "slave"))

\* _calculate_dynamic_pip_volume at recursion depth `depth'.  With both pip
\* values it caches them and calls itself again (line 601), where nothing has
\* changed, until the interpreter raises RecursionError; without them it calls
\* the fallback (line 610).  An exception in the body is caught at line 612
\* and the handler calls the fallback again (line 614).
RECURSIVE CalculateDynamicPipVolume(_, _, _)
CalculateDynamicPipVolume(symbol, original_volume, depth) ==
    IF depth > RecursionLimit THEN Raised
    ELSE
      LET body == IF PipValuesAvailable(GetSymbolId(symbol))
                  THEN CalculateDynamicPipVolume(symbol, original_volume, depth + 1)
                  ELSE CalculateSimpleMultiplierVolume(symbol, original_volume)
      IN  IF body.raised
          THEN CalculateSimpleMultiplierVolume(symbol, original_volume)
          ELSE body

\* How many times _calculate_dynamic_pip_volume, entered at `depth', computes
\* the pip value of each account (lines 588-589, once per entry).
RECURSIVE PipValueComputations(_, _)
PipValueComputations(symbol, depth) ==
    IF depth > RecursionLimit THEN 0
    ELSE 1 + (IF PipValuesAvailable(GetSymbolId(symbol))
              THEN PipValueComputations(symbol, depth + 1)
              ELSE 0)

\* HalfVolumeFallback without the max(MIN_LOT_SIZE, ...).
HalfVolumeFallbackNoFloor(original_volume) == Trunc(Rat(original_volume * 5, 10))

\* Line 546: max(MIN_LOT_SIZE, int(original_volume * 0.5)).
HalfVolumeFallback(original_volume) ==
    Max(MIN_LOT_SIZE, Trunc(Rat(original_volume * 5, 10)))

\* _calculate_adjusted_volume: the dynamic volume, or on any exception the
\* fallback of line 546.
CalculateAdjustedVolume(symbol, original_volume) ==
    LET r == CalculateDynamicPipVolume(symbol, original_volume, 1)
    IN  IF r.raised THEN HalfVolumeFallback(original_volume) ELSE r.volume

\* self.pip_values_cache after _calculate_adjusted_volume: line 595 stores the
\* pair when both values are truthy.
CacheAfterAdjust(symbol) ==
    LET id == GetSymbolId(symbol)
    IN  IF PipValuesAvailable(id)
        THEN [j \in DOMAIN pip_values_cache \cup {id} |->
                IF j = id
                THEN [master_pip_value |-> CalculatePipValue(id, "master"),
                      slave_pip_value |-> CalculatePipValue(id, "slave")]
                ELSE pip_values_cache[j]]
        ELSE pip_values_cache

---------------------------------------------------------------------------
(* Requests of the copier (client.send) and the initial state. *)

Req(type, account, symbolId, side, volume, positionId) ==
    [type |-> type, account |-> account, symbolId |-> symbolId, side |-> side,
     volume |-> volume, positionId |-> positionId]

\* A request that carries only its type and account.
Plain(type, account) == Req(type, account, 0, "None", 0, 0)

Pending(type) == {r \in BagToSet(inflight) : r.type = type}

Send(reqs) == inflight (+) SetToBag(reqs)
Answer(r, reqs) == (inflight (-) SetToBag({r})) (+) SetToBag(reqs)

Idle == [handler |-> "none"]

\* trade_copier.py: no trade of the source is being handled.
NoTrade == [awaiting |-> FALSE, volume |-> 0]

\* __init__ (lines 72-113).
Init ==
    /\ is_connected = FALSE
    /\ is_app_authorized = FALSE
    /\ master_authorized = FALSE
    /\ slave_authorized = FALSE
    /\ master_symbols = << >>
    /\ slave_symbols = << >>
    /\ master_assets = {}
    /\ slave_assets = {}
    /\ master_deposit_asset_id = 0
    /\ slave_deposit_asset_id = 0
    /\ master_data_loaded = FALSE
    /\ slave_data_loaded = FALSE
    /\ pip_values_cache = << >>
    /\ symbol_volume_ratio = << >>
    /\ inflight = EmptyBag
    /\ subscribed = {}
    /\ slave_positions = << >>
    /\ next_position_id = 1
    /\ connects = 0
    /\ fills = 0
    /\ sent = << >>
    /\ last = Idle
    /\ websocket = << >>
    /\ master_trade = NoTrade

---------------------------------------------------------------------------
(* Connection and authorisation. *)

\* _on_connected (lines 140-153).
OnConnected ==
    /\ ~is_connected
    /\ connects < MaxConnects
    /\ connects' = connects + 1
    /\ is_connected' = TRUE
    /\ inflight' = Send({Plain("ApplicationAuth", "none")})
    /\ sent' = <<Plain("ApplicationAuth", "none")>>
    /\ UNCHANGED wsVars
    /\ last' = [handler |-> "_on_connected"]
    /\ UNCHANGED <<is_app_authorized, master_authorized, slave_authorized,
                   dataVars, tradeVars, serverVars, fills>>

\* OnDisconnected that leaves the two account flags as they are.
OnDisconnectedKeepsAccounts ==
    /\ is_connected
    /\ is_connected' = FALSE
    /\ is_app_authorized' = FALSE
    /\ inflight' = EmptyBag
    /\ subscribed' = {}
    /\ sent' = << >>
    /\ UNCHANGED wsVars
    /\ last' = [handler |-> "_on_disconnected"]
    /\ UNCHANGED <<master_authorized, slave_authorized, dataVars, tradeVars,
                   slave_positions, next_position_id, connects, fills>>

\* _on_disconnected (lines 155-161).  The connection takes the unanswered
\* requests and the server-side subscriptions with it.
OnDisconnected ==
    /\ is_connected
    /\ is_connected' = FALSE
    /\ is_app_authorized' = FALSE
    /\ master_authorized' = FALSE
    /\ slave_authorized' = FALSE
    /\ inflight' = EmptyBag
    /\ subscribed' = {}
    /\ sent' = << >>
    /\ UNCHANGED wsVars
    /\ last' = [handler |-> "_on_disconnected"]
    /\ UNCHANGED <<dataVars, tradeVars, slave_positions, next_position_id,
                   connects, fills>>

\* _on_message_received, ProtoOAApplicationAuthRes (lines 172-175) with
\* _get_account_list (lines 219-227).
OnApplicationAuthRes ==
    \E r \in Pending("ApplicationAuth") :
        /\ is_app_authorized' = TRUE
        /\ inflight' = Answer(r, {Plain("GetAccountList", "none")})
        /\ sent' = <<Plain("GetAccountList", "none")>>
        /\ UNCHANGED wsVars
        /\ last' = [handler |-> "ProtoOAApplicationAuthRes"]
        /\ UNCHANGED <<is_connected, master_authorized, slave_authorized,
                       dataVars, tradeVars, serverVars, connects, fills>>

\* HandleAccountList that requests the authorisation of both accounts at once.
HandleAccountListBoth ==
    \E r \in Pending("GetAccountList") :
        /\ inflight' = Answer(r, {Plain("AccountAuth", "master"),
                                  Plain("AccountAuth", "slave")})
        /\ sent' = <<Plain("AccountAuth", "master"), Plain("AccountAuth", "slave")>>
        /\ UNCHANGED wsVars
        /\ last' = [handler |-> "_handle_account_list"]
        /\ UNCHANGED <<authVars, dataVars, tradeVars, serverVars, connects, fills>>

\* _handle_account_list (lines 229-239) with _authorize_account (241-251).
HandleAccountList ==
    \E r \in Pending("GetAccountList") :
        /\ inflight' = Answer(r, {Plain("AccountAuth", "master")})
        /\ sent' = <<Plain("AccountAuth", "master")>>
        /\ UNCHANGED wsVars
        /\ last' = [handler |-> "_handle_account_list"]
        /\ UNCHANGED <<authVars, dataVars, tradeVars, serverVars, connects, fills>>

\* _load_account_data (lines 649-683): the three data requests of an account.
LoadAccountData(account) ==
    <<Plain("Trader", account), Plain("AssetList", account),
      Plain("SymbolById", account)>>

Range(seq) == {seq[k] : k \in DOMAIN seq}

\* _handle_account_auth (lines 253-280).  For the master: the flag,
\* _subscribe_to_events (lines 282-303), _load_account_data and the
\* authorisation request of the slave.  For the slave: the flag and
\* _load_account_data.
HandleAccountAuth ==
    \E r \in Pending("AccountAuth") :
        LET out == IF r.account = "master"
                   THEN <<Plain("SubscribeSpots", "master")>>
                        \o LoadAccountData("master")
                        \o <<Plain("AccountAuth", "slave")>>
                   ELSE LoadAccountData("slave")
            \* a subscription takes effect when it is sent; its reply is not read
            toServer == {q \in Range(out) : q.type # "SubscribeSpots"}
        IN  /\ master_authorized' = (master_authorized \/ r.account = "master")
            /\ slave_authorized' = (slave_authorized \/ r.account = "slave")
            /\ subscribed' = IF r.account = "master"
                             THEN subscribed \cup {<<"master", i>> : i \in MajorPairs}
                             ELSE subscribed
            /\ inflight' = Answer(r, toServer)
            /\ sent' = out
            /\ UNCHANGED wsVars
            /\ last' = [handler |-> "_handle_account_auth", account |-> r.account]
            /\ UNCHANGED <<is_connected, is_app_authorized, dataVars, tradeVars,
                           slave_positions, next_position_id, connects, fills>>

\* OnError that gives up the connection after the failure.
OnErrorStops ==
    \E r \in BagToSet(inflight) :
        /\ inflight' = EmptyBag
        /\ is_connected' = FALSE
        /\ sent' = << >>
        /\ UNCHANGED wsVars
        /\ last' = [handler |-> "_on_error", request |-> r]
        /\ UNCHANGED <<is_app_authorized, master_authorized, slave_authorized,
                       dataVars, tradeVars, serverVars, connects, fills>>

\* OnError that sends the failed request again.
OnErrorResends ==
    \E r \in BagToSet(inflight) :
        /\ inflight' = Answer(r, {r})
        /\ sent' = <<r>>
        /\ UNCHANGED wsVars
        /\ last' = [handler |-> "_on_error", request |-> r]
        /\ UNCHANGED <<authVars, dataVars, tradeVars, serverVars, connects, fills>>

\* _on_error (lines 927-929): the errback of every request only logs.
OnError ==
    \E r \in BagToSet(inflight) :
        /\ inflight' = Answer(r, {})
        /\ sent' = << >>
        /\ UNCHANGED wsVars
        /\ last' = [handler |-> "_on_error", request |-> r]
        /\ UNCHANGED <<authVars, dataVars, tradeVars, serverVars, connects, fills>>

---------------------------------------------------------------------------
(* Reference data and prices. *)

\* DataComplete without the test of the deposit asset id.
DataCompleteWithoutDeposit(deposit_asset_id, assets, symbols) ==
    /\ Cardinality(assets) > 0
    /\ Cardinality(DOMAIN symbols) > 0

\* _check_data_loading_complete (lines 830-855) for one account, on the
\* dictionaries as they are after the handler's own update.
DataComplete(deposit_asset_id, assets, symbols) ==
    /\ deposit_asset_id # 0
    /\ Cardinality(assets) > 0
    /\ Cardinality(DOMAIN symbols) > 0

\* _handle_trader_info (lines 685-707).  It stores the deposit asset id and
\* does not call _check_data_loading_complete.
HandleTraderInfo ==
    \E r \in Pending("Trader") : \E deposit \in {0, ServerDepositAsset(r.account)} :
        /\ IF deposit # 0 /\ r.account = "master"
           THEN master_deposit_asset_id' = deposit
           ELSE UNCHANGED master_deposit_asset_id
        /\ IF deposit # 0 /\ r.account # "master"
           THEN slave_deposit_asset_id' = deposit
           ELSE UNCHANGED slave_deposit_asset_id
        /\ inflight' = Answer(r, {})
        /\ sent' = << >>
        /\ UNCHANGED wsVars
        /\ last' = [handler |-> "_handle_trader_info", account |-> r.account]
        /\ UNCHANGED <<authVars, master_symbols, slave_symbols, master_assets,
                       slave_assets, master_data_loaded, slave_data_loaded,
                       tradeVars, serverVars, connects, fills>>

\* _handle_asset_list (lines 709-734).
HandleAssetList ==
    \E r \in Pending("AssetList") : \E assets \in {{}, ServerAssets(r.account)} :
        /\ IF r.account = "master"
           THEN /\ master_assets' = master_assets \cup assets
                /\ master_data_loaded' =
                      (master_data_loaded
                          \/ (assets # {}
                              /\ DataComplete(master_deposit_asset_id,
                                              master_assets', master_symbols)))
                /\ UNCHANGED <<slave_assets, slave_data_loaded>>
           ELSE /\ slave_assets' = slave_assets \cup assets
                /\ slave_data_loaded' =
                      (slave_data_loaded
                          \/ (assets # {}
                              /\ DataComplete(slave_deposit_asset_id,
                                              slave_assets', slave_symbols)))
                /\ UNCHANGED <<master_assets, master_data_loaded>>
        /\ inflight' = Answer(r, {})
        /\ sent' = << >>
        /\ UNCHANGED wsVars
        /\ last' = [handler |-> "_handle_asset_list", account |-> r.account]
        /\ UNCHANGED <<authVars, master_symbols, slave_symbols,
                       master_deposit_asset_id, slave_deposit_asset_id,
                       tradeVars, serverVars, connects, fills>>

\* symbol_dict[symbol.symbolId] = symbol_data for every symbol of the response.
Merge(symbol_dict, symbols) ==
    [i \in DOMAIN symbol_dict \cup DOMAIN symbols |->
        IF i \in DOMAIN symbols THEN symbols[i] ELSE symbol_dict[i]]

\* _handle_symbol_list (lines 736-769) with _subscribe_to_spots (771-786).
HandleSymbolList ==
    \E r \in Pending("SymbolById") : \E symbols \in {<< >>, ServerSymbols(r.account)} :
        LET got == DOMAIN symbols # {}
            out == IF got THEN <<Plain("SubscribeSpots", r.account)>> ELSE << >>
        IN
        /\ IF r.account = "master"
           THEN /\ master_symbols' = Merge(master_symbols, symbols)
                /\ master_data_loaded' =
                      (master_data_loaded
                          \/ (got /\ DataComplete(master_deposit_asset_id,
                                                  master_assets, master_symbols')))
                /\ subscribed' = IF got
                                 THEN subscribed \cup
                                      {<<"master", i>> : i \in DOMAIN master_symbols'}
                                 ELSE subscribed
                /\ UNCHANGED <<slave_symbols, slave_data_loaded>>
           ELSE /\ slave_symbols' = Merge(slave_symbols, symbols)
                /\ slave_data_loaded' =
                      (slave_data_loaded
                          \/ (got /\ DataComplete(slave_deposit_asset_id,
                                                  slave_assets, slave_symbols')))
                /\ subscribed' = IF got
                                 THEN subscribed \cup
                                      {<<"slave", i>> : i \in DOMAIN slave_symbols'}
                                 ELSE subscribed
                /\ UNCHANGED <<master_symbols, master_data_loaded>>
        /\ inflight' = Answer(r, {})
        /\ sent' = out
        /\ UNCHANGED wsVars
        /\ last' = [handler |-> "_handle_symbol_list", account |-> r.account]
        /\ UNCHANGED <<authVars, master_assets, slave_assets,
                       master_deposit_asset_id, slave_deposit_asset_id,
                       tradeVars, slave_positions, next_position_id,
                       connects, fills>>

\* WithSpot that writes the quote to every symbol of the dictionary.
WithSpotEverywhere(symbol_dict, symbol_id, bid, ask) ==
    [j \in DOMAIN symbol_dict |->
        [symbol_dict[j] EXCEPT !.bid_raw = IF bid # 0 THEN bid ELSE @,
                               !.ask_raw = IF ask # 0 THEN ask ELSE @]]

\* Lines 806-813: the quote of one symbol after a spot event; a bid or ask of
\* 0 is not in the event and leaves the cached value.
WithSpot(symbol_dict, symbol_id, bid, ask) ==
    IF symbol_id \in DOMAIN symbol_dict
    THEN [symbol_dict EXCEPT ![symbol_id] =
            [@ EXCEPT !.bid_raw = IF bid # 0 THEN bid ELSE @,
                      !.ask_raw = IF ask # 0 THEN ask ELSE @]]
    ELSE symbol_dict

\* _handle_spot_event (lines 788-820) with _convert_relative_price (822-828).
HandleSpotEvent ==
    \E account \in SpotAccounts, symbol_id \in SpotSymbolIds, price \in SpotPrices :
        /\ is_connected
        /\ account \in Accounts => <<account, symbol_id>> \in subscribed
        /\ CASE account = "master" ->
                /\ master_symbols' = WithSpot(master_symbols, symbol_id, price[1], price[2])
                /\ UNCHANGED slave_symbols
             [] account = "slave" ->
                /\ slave_symbols' = WithSpot(slave_symbols, symbol_id, price[1], price[2])
                /\ UNCHANGED master_symbols
             [] OTHER -> \* lines 801-802: unknown account
                UNCHANGED <<master_symbols, slave_symbols>>
        /\ sent' = << >>
        /\ UNCHANGED wsVars
        /\ last' = [handler |-> "_handle_spot_event", account |-> account,
                    symbol_id |-> symbol_id]
        /\ UNCHANGED <<authVars, master_assets, slave_assets,
                       master_deposit_asset_id, slave_deposit_asset_id,
                       master_data_loaded, slave_data_loaded,
                       tradeVars, serverVars, inflight, connects, fills>>

---------------------------------------------------------------------------
(* Copying an open (_copy_to_slave). *)

\* Lines 510-513: the ratio map after an open of `symbol' with source volume
\* `volume' copied as `adjusted_volume'.  The key is _get_symbol_id(symbol).
RatioAfterOpen(symbol, volume, adjusted_volume) ==
    LET key == GetSymbolId(symbol)
    IN  [j \in DOMAIN symbol_volume_ratio \cup {key} |->
            IF j = key THEN Rat(adjusted_volume, volume)
            ELSE symbol_volume_ratio[j]]

\* OrderRequest addressed to the account the fill came from.
OrderRequestOnSource(symbol_id, side, adjusted_volume) ==
    Req("NewOrder", "master", symbol_id, side, adjusted_volume, 0)

\* OrderRequest that buys whatever the side of the source fill.
OrderRequestAlwaysBuy(symbol_id, side, adjusted_volume) ==
    Req("NewOrder", "slave", symbol_id, "BUY", adjusted_volume, 0)

\* Lines 518-524: the order request.  trade_signal.symbol_id is set and truthy
\* for every signal built by the execution handler.
OrderRequest(symbol_id, side, adjusted_volume) ==
    Req("NewOrder", "slave", symbol_id, side, adjusted_volume, 0)

---------------------------------------------------------------------------
(* Closing (_close_slave_position, _handle_positions_for_close). *)

NoPosition == [positionId |-> 0, symbolId |-> 0, side |-> "None", volume |-> 0]

\* PositionToClose without the symbol test: the first position of the response.
PositionToCloseAny(positions, symbol_id) ==
    IF positions = << >> THEN NoPosition ELSE Head(positions)

\* Lines 437-446: the first position of the response with the symbol id.
RECURSIVE PositionToClose(_, _)
PositionToClose(positions, symbol_id) ==
    IF positions = << >> THEN NoPosition
    ELSE IF Head(positions).symbolId = symbol_id THEN Head(positions)
    ELSE PositionToClose(Tail(positions), symbol_id)

\* Line 457: self.symbol_volume_ratio.get(symbol_id, 1.0).
RatioFor(symbol_id) ==
    IF symbol_id \in DOMAIN symbol_volume_ratio
    THEN symbol_volume_ratio[symbol_id] ELSE Rat(1, 1)

\* Lines 420-426: the reconcile request; its callback captures the symbol id
\* and the source close volume.
ReconcileRequest(symbol_id, master_close_volume) ==
    [type |-> "Reconcile", account |-> "slave", symbolId |-> symbol_id,
     side |-> "None", volume |-> master_close_volume, positionId |-> 0,
     \* history, never read by the callback: the ratio the instrument has
     \* when the Close event is handled, 0 if it has none
     ratio_at_event |-> IF symbol_id \in DOMAIN symbol_volume_ratio
                        THEN symbol_volume_ratio[symbol_id] ELSE Rat(0, 1)]

\* StepRawUnits with a fallback of one unit instead of MIN_LOT_SIZE.
StepRawUnitsFallbackOne(symbol_id) ==
    LET step == IF symbol_id \in DOMAIN slave_symbols
                THEN slave_symbols[symbol_id].volume_step ELSE 1
    IN  IF step <= 0 THEN 1 ELSE step

\* Lines 461-463: the broker's volume step, MIN_LOT_SIZE when the symbol is
\* not loaded for the slave or its step is <= 0.
StepRawUnits(symbol_id) ==
    LET step == IF symbol_id \in DOMAIN slave_symbols
                THEN slave_symbols[symbol_id].volume_step ELSE MIN_LOT_SIZE
    IN  IF step <= 0 THEN MIN_LOT_SIZE ELSE step

\* VolumeToClose without the ratio: the source volume itself is rounded.
VolumeToCloseUnscaled(master_close_volume, ratio, step, current_volume) ==
    LET rounded == (master_close_volume \div step) * step
    IN  IF current_volume - rounded <= step THEN current_volume ELSE rounded

\* VolumeToClose without the rounding to the step.
VolumeToCloseUnrounded(master_close_volume, ratio, step, current_volume) ==
    LET raw_volume_to_close ==
            Trunc(Rat(master_close_volume * ratio.num, ratio.den))
    IN  IF current_volume - raw_volume_to_close <= step
        THEN current_volume ELSE raw_volume_to_close

\* VolumeToClose without the whole-position rule of lines 470-473.
VolumeToCloseRoundedOnly(master_close_volume, ratio, step, current_volume) ==
    (Trunc(Rat(master_close_volume * ratio.num, ratio.den)) \div step) * step

\* Lines 458-473: int(master_close_volume * ratio) rounded down to the step,
\* and the whole position when the remainder would be <= one step.
VolumeToClose(master_close_volume, ratio, step, current_volume) ==
    LET raw_volume_to_close ==
            Trunc(Rat(master_close_volume * ratio.num, ratio.den))
        rounded == (raw_volume_to_close \div step) * step
    IN  IF current_volume - rounded <= step THEN current_volume ELSE rounded

\* Lines 477-484: the close request.
CloseRequest(position_id, volume_to_close) ==
    Req("ClosePosition", "slave", 0, "None", volume_to_close, position_id)

\* RatioAfterClose that forgets the ratio of a position closed as a whole.
RatioAfterCloseForgets(symbol_id, position, volume_to_close) ==
    IF position # NoPosition /\ volume_to_close = position.volume
    THEN [j \in DOMAIN symbol_volume_ratio \ {symbol_id} |->
             symbol_volume_ratio[j]]
    ELSE symbol_volume_ratio

\* self.symbol_volume_ratio after _handle_positions_for_close: line 457 reads
\* the map and no statement of lines 431-493 assigns or deletes an entry.
RatioAfterClose(symbol_id, position, volume_to_close) == symbol_volume_ratio

\* _handle_positions_for_close (lines 431-493), the callback of the reconcile
\* request r, on the positions the server reports.
HandlePositionsForClose ==
    \E r \in Pending("Reconcile") :
        \* the server reports positions only of an authorised account
        /\ slave_authorized
        /\ LET position == PositionToClose(slave_positions, r.symbolId)
               found == position # NoPosition
               usable == found /\ position.positionId # 0 /\ position.volume # 0
               ratio == RatioFor(r.symbolId)
               step == StepRawUnits(r.symbolId)
               volume_to_close ==
                   VolumeToClose(r.volume, ratio, step, position.volume)
               out == IF usable
                      THEN <<CloseRequest(position.positionId, volume_to_close)>>
                      ELSE << >>
           IN  /\ inflight' = Answer(r, Range(out))
               /\ sent' = out
               /\ UNCHANGED wsVars
               /\ last' = [handler |-> "_handle_positions_for_close",
                           symbol_id |-> r.symbolId,
                           master_close_volume |-> r.volume,
                           found |-> found, position |-> position,
                           ratio |-> ratio, step |-> step,
                           ratio_at_event |-> r.ratio_at_event]
               /\ symbol_volume_ratio' =
                     RatioAfterClose(r.symbolId, position, volume_to_close)
               /\ UNCHANGED <<authVars, dataVars, pip_values_cache, serverVars,
                              connects, fills>>

---------------------------------------------------------------------------
(* Execution events (_handle_execution_event). *)

Event(account, executionType, order, deal, top) ==
    [account |-> account, executionType |-> executionType, order |-> order,
     deal |-> deal, top |-> top]

\* IsFill that also takes ORDER_ACCEPTED = 2 for a trade.
IsFillOrAccepted(ev) == ev.executionType \in {2, 3, 4}

\* Line 324: ORDER_FILLED = 3, ORDER_PARTIAL_FILL = 4.
IsFill(ev) == ev.executionType \in {3, 4}

\* Outcome without the account test of lines 312-314.
OutcomeAnyAccount(ev) ==
    IF ~IsFill(ev) THEN "not_handled"
    ELSE IF ~DetailsComplete(TradeDetails(ev)) THEN "incomplete"
    ELSE IF IsClosingOrder(ev) THEN "close"
    ELSE IF ~slave_authorized THEN "not_authorized"
    ELSE "open"

\* Outcome that defers every event while a request is unanswered.
OutcomeAwaitsResponses(ev) ==
    IF ev.account # "master" THEN "ignored"
    ELSE IF inflight # EmptyBag THEN "not_handled"
    ELSE IF ~IsFill(ev) THEN "not_handled"
    ELSE IF ~DetailsComplete(TradeDetails(ev)) THEN "incomplete"
    ELSE IF IsClosingOrder(ev) THEN "close"
    ELSE IF ~slave_authorized THEN "not_authorized"
    ELSE "open"

\* What the handler does with the event: lines 312-314, 324 and 406-407,
\* 379 and 404-405, 382-385, 386-403 with the guard of lines 498-500.
Outcome(ev) ==
    IF ev.account # "master" THEN "ignored"
    ELSE IF ~IsFill(ev) THEN "not_handled"
    ELSE IF ~DetailsComplete(TradeDetails(ev)) THEN "incomplete"
    ELSE IF IsClosingOrder(ev) THEN "close"
    ELSE IF ~slave_authorized THEN "not_authorized"
    ELSE "open"

\* _handle_execution_event (lines 305-412) on one event, with
\* _close_slave_position (414-429) and _copy_to_slave (495-535).  The server
\* sends the events of an account while the account is authorised.
HandleExecutionEvent(ev) ==
    LET outcome == Outcome(ev)
        t == TradeDetails(ev)
        symbol == GetSymbolName(t.symbolId)
        adjusted_volume == CalculateAdjustedVolume(symbol, t.volume)
        out == CASE outcome = "close" ->
                      <<ReconcileRequest(t.symbolId, t.volume)>>
                 [] outcome = "open" ->
                      <<OrderRequest(t.symbolId,
                                     IF t.tradeSide = "BUY" THEN "BUY" ELSE "SELL",
                                     adjusted_volume)>>
                 [] OTHER -> << >>
    IN  /\ is_connected
        /\ IF ev.account = "master" THEN master_authorized ELSE slave_authorized
        /\ IF ev.account = "master" /\ IsFill(ev)
           THEN fills < MaxFills /\ fills' = fills + 1
           ELSE UNCHANGED fills
        /\ IF outcome = "open"
           THEN /\ pip_values_cache' = CacheAfterAdjust(symbol)
                /\ symbol_volume_ratio' =
                      RatioAfterOpen(symbol, t.volume, adjusted_volume)
           ELSE UNCHANGED tradeVars
        /\ inflight' = Send(Range(out))
        /\ sent' = out
        /\ UNCHANGED wsVars
        /\ last' = [handler |-> "_handle_execution_event", event |-> ev,
                    outcome |-> outcome,
                    is_closing_order |-> IF outcome \in {"ignored", "not_handled"}
                                         THEN FALSE ELSE IsClosingOrder(ev),
                    details |-> IF outcome \in {"ignored", "not_handled"}
                                THEN NoTriple ELSE t,
                    pip_values |-> IF outcome = "open"
                                   THEN PipValuesFor(GetSymbolId(symbol))
                                   ELSE NoPipValues]
        /\ UNCHANGED <<authVars, dataVars, serverVars, connects>>

---------------------------------------------------------------------------
(* The server's handling of the destination's orders. *)

\* A market order of the destination is filled: a new position.
ServerFillsOrder ==
    \E r \in Pending("NewOrder") :
        /\ slave_authorized
        /\ slave_positions' =
              Append(slave_positions,
                     [positionId |-> next_position_id, symbolId |-> r.symbolId,
                      side |-> r.side, volume |-> r.volume])
        /\ next_position_id' = next_position_id + 1
        /\ inflight' = Answer(r, {})
        /\ sent' = << >>
        /\ UNCHANGED wsVars
        /\ last' = Idle
        /\ UNCHANGED <<authVars, dataVars, tradeVars, subscribed, connects, fills>>

\* The positions after closing `volume' of position `position_id'.
AfterClose(positions, position_id, volume) ==
    LET reduced == [k \in DOMAIN positions |->
                      IF positions[k].positionId = position_id
                      THEN [positions[k] EXCEPT !.volume = @ - volume]
                      ELSE positions[k]]
    IN  SelectSeq(reduced, LAMBDA q : q.volume > 0)

\* A close request is executed when it names an open position and a volume
\* the position holds; any other close request can only be rejected (OnError).
ServerClosesPosition ==
    \E r \in Pending("ClosePosition") :
        /\ slave_authorized
        /\ \E k \in DOMAIN slave_positions :
              /\ slave_positions[k].positionId = r.positionId
              /\ 0 < r.volume
              /\ r.volume <= slave_positions[k].volume
        /\ slave_positions' = AfterClose(slave_positions, r.positionId, r.volume)
        /\ inflight' = Answer(r, {})
        /\ sent' = << >>
        /\ UNCHANGED wsVars
        /\ last' = Idle
        /\ UNCHANGED <<authVars, dataVars, tradeVars, subscribed,
                       next_position_id, connects, fills>>

---------------------------------------------------------------------------
(* The events of the model and the specification. *)

\* A fill of the source with one deal, with or without a closePositionDetail.
DealEvent(executionType, triple, detail) ==
    Event("master", executionType, NoOrder,
          [present |-> TRUE, data |-> triple, closePositionDetail |-> detail],
          NoTriple)

TradeTriples ==
    {Triple(1, "BUY", 3000), Triple(1, "SELL", 1500),
     Triple(41, "BUY", 2000), Triple(41, "SELL", 1500),
     Triple(50, "BUY", 3000), Triple(41, "BUY", 10)}

TradeEvents ==
    {DealEvent(3, t, d) : t \in TradeTriples, d \in {NoDetail, Detail(<<"p">>)}}
    \cup {DealEvent(4, Triple(41, "BUY", 2000), NoDetail),
          DealEvent(2, Triple(41, "BUY", 2000), NoDetail),
          Event("slave", 3, NoOrder,
                [present |-> TRUE, data |-> Triple(41, "BUY", 1500),
                 closePositionDetail |-> NoDetail], NoTriple)}

OnExecutionEvent == \E ev \in TradeEvents : HandleExecutionEvent(ev)

Next ==
    \/ OnConnected
    \/ OnDisconnected
    \/ OnApplicationAuthRes
    \/ HandleAccountList
    \/ HandleAccountAuth
    \/ OnError
    \/ HandleTraderInfo
    \/ HandleAssetList
    \/ HandleSymbolList
    \/ HandleSpotEvent
    \/ OnExecutionEvent
    \/ HandlePositionsForClose
    \/ ServerFillsOrder
    \/ ServerClosesPosition

Spec == Init /\ [][Next]_vars

---------------------------------------------------------------------------
(* The start of the copier on its own: connection, authorisation, the       *)
(* loading of the reference data and the price feed, before any fill.       *)

NextLoad ==
    \/ OnConnected
    \/ OnDisconnected
    \/ OnApplicationAuthRes
    \/ HandleAccountList
    \/ HandleAccountAuth
    \/ OnError
    \/ HandleTraderInfo
    \/ HandleAssetList
    \/ HandleSymbolList
    \/ HandleSpotEvent

SpecLoad == Init /\ [][NextLoad]_vars

---------------------------------------------------------------------------
(* The trading phase on its own: the copier after the authorisation of the   *)
(* source, in the configurations of reference data Spec reaches (all data of *)
(* an account loaded, or none of it because its requests failed), with or    *)
(* without the destination authorised and a price of symbol 1 on it.         *)

Loaded(account, price) ==
    [i \in DOMAIN ServerSymbols(account) |->
        IF i \in SpotSymbolIds
        THEN [ServerSymbols(account)[i] EXCEPT !.bid_raw = price[1],
                                               !.ask_raw = price[2]]
        ELSE ServerSymbols(account)[i]]

InitTrade ==
    /\ is_connected = TRUE
    /\ is_app_authorized = TRUE
    /\ master_authorized = TRUE
    /\ slave_authorized \in BOOLEAN
    /\ master_data_loaded \in BOOLEAN
    /\ slave_data_loaded \in (IF slave_authorized THEN BOOLEAN ELSE {FALSE})
    /\ master_symbols = IF master_data_loaded
                        THEN Loaded("master", <<0, 0>>) ELSE << >>
    /\ master_assets = IF master_data_loaded THEN ServerAssets("master") ELSE {}
    /\ master_deposit_asset_id =
          IF master_data_loaded THEN ServerDepositAsset("master") ELSE 0
    /\ \E price \in {<<0, 0>>} \cup {q \in SpotPrices : q[1] # 0 /\ q[2] # 0} :
          slave_symbols = IF slave_data_loaded THEN Loaded("slave", price)
                          ELSE << >>
    /\ slave_assets = IF slave_data_loaded THEN ServerAssets("slave") ELSE {}
    /\ slave_deposit_asset_id =
          IF slave_data_loaded THEN ServerDepositAsset("slave") ELSE 0
    /\ pip_values_cache = << >>
    /\ symbol_volume_ratio = << >>
    /\ inflight = EmptyBag
    /\ subscribed = {<<"master", i>> : i \in MajorPairs \cup DOMAIN master_symbols}
                    \cup {<<"slave", i>> : i \in DOMAIN slave_symbols}
    /\ slave_positions = << >>
    /\ next_position_id = 1
    /\ connects = 1
    /\ fills = 0
    /\ sent = << >>
    /\ last = Idle
    /\ websocket = << >>
    /\ master_trade = NoTrade

NextTrade ==
    \/ OnExecutionEvent
    \/ HandlePositionsForClose
    \/ ServerFillsOrder
    \/ ServerClosesPosition
    \/ OnError

SpecTrade == InitTrade /\ [][NextTrade]_vars

---------------------------------------------------------------------------
(* The execution handler on events of every shape: order and deal present or *)
(* not, closePositionDetail absent, empty, blank or set, and trade details   *)
(* missing in the deal, in order.tradeData or at the top level.              *)

Details ==
    {NoDetail, Detail(<< >>), Detail(<<" ">>), Detail(<<"p">>),
     Detail(<<" ", "p", " ">>)}

DealTriples ==
    {Triple(41, "BUY", 2000), Triple(0, "BUY", 2000),
     Triple(41, "None", 2000), Triple(41, "SELL", 0)}

OrderTriples == {Triple(1, "SELL", 1500), Triple(0, "SELL", 1500)}

TopTriples == {NoTriple, Triple(50, "BUY", 10)}

Deals ==
    {NoDeal} \cup
    {[present |-> TRUE, data |-> t, closePositionDetail |-> d] :
        t \in DealTriples, d \in Details}

Orders ==
    {NoOrder} \cup
    {[present |-> TRUE, closingOrder |-> c, tradeData |-> td] :
        c \in BOOLEAN,
        td \in {NoTradeData} \cup
               {[present |-> TRUE, data |-> t] : t \in OrderTriples}}

AllEvents ==
    {Event("master", 3, o, d, t) : o \in Orders, d \in Deals, t \in TopTriples}
    \cup {Event("master", 4, o, NoDeal, NoTriple) : o \in Orders}
    \cup {Event("master", 2, o, NoDeal, NoTriple) : o \in Orders}
    \cup {Event("slave", 3, NoOrder, d, NoTriple) : d \in Deals}

OnAnyExecutionEvent ==
    /\ fills < MaxClassified
    /\ \E ev \in AllEvents : HandleExecutionEvent(ev)

NextEvents ==
    \/ OnAnyExecutionEvent
    \/ HandlePositionsForClose
    \/ ServerFillsOrder
    \/ OnError

SpecEvents == InitTrade /\ [][NextEvents]_vars

---------------------------------------------------------------------------
(* Opens under a moving price feed: spot events of both accounts between the *)
(* fills, so that pip values are computed with no quote, half a quote and a  *)
(* whole quote.                                                              *)

OnPricedExecutionEvent ==
    /\ fills < MaxClassified
    /\ \E ev \in TradeEvents : HandleExecutionEvent(ev)

NextPip ==
    \/ HandleSpotEvent
    \/ OnPricedExecutionEvent

SpecPip == InitTrade /\ [][NextPip]_vars

---------------------------------------------------------------------------
(* Messages whose handling fails and is recovered from: an event with no     *)
(* volume, a close with or without a position to close, opens (their volume  *)
(* calculation raises), and requests the server executes or answers with an  *)
(* error.                                                                    *)

FaultEvents ==
    {DealEvent(3, Triple(41, "SELL", 0), NoDetail),
     DealEvent(3, Triple(41, "SELL", 1500), Detail(<<"p">>)),
     DealEvent(3, Triple(41, "BUY", 3000), NoDetail),
     DealEvent(3, Triple(1, "BUY", 3000), NoDetail)}

OnFaultyExecutionEvent == \E ev \in FaultEvents : HandleExecutionEvent(ev)

NextFaults ==
    \/ OnFaultyExecutionEvent
    \/ HandlePositionsForClose
    \/ ServerFillsOrder
    \/ ServerClosesPosition
    \/ OnError

SpecFaults == InitTrade /\ [][NextFaults]_vars

---------------------------------------------------------------------------
(* Trading while requests stay unanswered: the copier right after both       *)
(* authorisations, the six reference-data requests of _load_account_data     *)
(* sent and none of them ever answered.                                      *)

InitStall ==
    /\ is_connected = TRUE
    /\ is_app_authorized = TRUE
    /\ master_authorized = TRUE
    /\ slave_authorized = TRUE
    /\ master_data_loaded = FALSE
    /\ slave_data_loaded = FALSE
    /\ master_symbols = << >>
    /\ slave_symbols = << >>
    /\ master_assets = {}
    /\ slave_assets = {}
    /\ master_deposit_asset_id = 0
    /\ slave_deposit_asset_id = 0
    /\ pip_values_cache = << >>
    /\ symbol_volume_ratio = << >>
    /\ inflight = SetToBag(Range(LoadAccountData("master"))
                           \cup Range(LoadAccountData("slave")))
    /\ subscribed = {<<"master", i>> : i \in MajorPairs}
    /\ slave_positions = << >>
    /\ next_position_id = 1
    /\ connects = 1
    /\ fills = 0
    /\ sent = << >>
    /\ last = Idle
    /\ websocket = << >>
    /\ master_trade = NoTrade

StallEvents ==
    {DealEvent(3, Triple(41, "SELL", 1500), Detail(<<"p">>)),
     DealEvent(3, Triple(41, "BUY", 3000), NoDetail),
     DealEvent(3, Triple(1, "BUY", 3000), NoDetail)}

OnStallExecutionEvent == \E ev \in StallEvents : HandleExecutionEvent(ev)

NextStall ==
    \/ OnStallExecutionEvent
    \/ HandlePositionsForClose
    \/ ServerFillsOrder
    \/ ServerClosesPosition

SpecStall == InitStall /\ [][NextStall]_vars

---------------------------------------------------------------------------
(* A round trip of the source on one instrument: an Open, then Closes of     *)
(* equal parts that add up to the volume opened.  A lookup response is       *)
(* delivered once the copied order is filled and the close requests before   *)
(* it are executed or refused.                                               *)

RoundTripSymbol == 1
RoundTripPart == 1500

\* The k-th fill of the source (k from 0), a deal of the given side.
RoundTripEvent(k, side) ==
    IF k = 0
    THEN DealEvent(3, Triple(RoundTripSymbol, side,
                             RoundTripPart * (MaxFills - 1)), NoDetail)
    ELSE DealEvent(3, Triple(RoundTripSymbol, side, RoundTripPart),
                   Detail(<<"p">>))

\* The server refuses the close request: no such position, or not a volume
\* the position holds (the guard of ServerClosesPosition).
Refused(r) ==
    ~\E k \in DOMAIN slave_positions :
          /\ slave_positions[k].positionId = r.positionId
          /\ 0 < r.volume
          /\ r.volume <= slave_positions[k].volume

OnRoundTripEvent ==
    \E side \in {"BUY", "SELL"} :
        HandleExecutionEvent(RoundTripEvent(fills, side))

RoundTripLookup ==
    /\ Pending("NewOrder") = {}
    /\ \A r \in Pending("ClosePosition") : Refused(r)
    /\ HandlePositionsForClose

NextRoundTrip ==
    \/ OnRoundTripEvent
    \/ RoundTripLookup
    \/ ServerFillsOrder
    \/ ServerClosesPosition

SpecRoundTrip == InitTrade /\ [][NextRoundTrip]_vars

---------------------------------------------------------------------------
(* The destination's own fills: the server reports the fill of each copied   *)
(* order in an execution event of the destination account, on the same       *)
(* connection as the events of the source.                                   *)

\* The execution event of the fill that opened the position.
FillEventOf(position) ==
    Event("slave", 3, NoOrder,
          [present |-> TRUE,
           data |-> Triple(position.symbolId, position.side, position.volume),
           closePositionDetail |-> NoDetail],
          NoTriple)

OnDestinationFill ==
    \E k \in DOMAIN slave_positions :
        HandleExecutionEvent(FillEventOf(slave_positions[k]))

NextEcho ==
    \/ OnStallExecutionEvent
    \/ OnDestinationFill
    \/ HandlePositionsForClose
    \/ ServerFillsOrder
    \/ ServerClosesPosition

SpecEcho == InitTrade /\ [][NextEcho]_vars

---------------------------------------------------------------------------
(* Trading across a disconnect: the copier with both accounts authorised,    *)
(* the connection lost and made again, and the authorisations repeated,      *)
(* with fills of the source arriving whenever the source is authorised.      *)
(* connects counts the connections made from this state on.                  *)

InitReconnect ==
    /\ is_connected = TRUE
    /\ is_app_authorized = TRUE
    /\ master_authorized = TRUE
    /\ slave_authorized = TRUE
    /\ master_data_loaded = FALSE
    /\ slave_data_loaded = FALSE
    /\ master_symbols = << >>
    /\ slave_symbols = << >>
    /\ master_assets = {}
    /\ slave_assets = {}
    /\ master_deposit_asset_id = 0
    /\ slave_deposit_asset_id = 0
    /\ pip_values_cache = << >>
    /\ symbol_volume_ratio = << >>
    /\ inflight = EmptyBag
    /\ subscribed = {<<"master", i>> : i \in MajorPairs}
    /\ slave_positions = << >>
    /\ next_position_id = 1
    /\ connects = 0
    /\ fills = 0
    /\ sent = << >>
    /\ last = Idle
    /\ websocket = << >>
    /\ master_trade = NoTrade

NextReconnect ==
    \/ OnStallExecutionEvent
    \/ ServerFillsOrder
    \/ OnDisconnected
    \/ OnConnected
    \/ OnApplicationAuthRes
    \/ HandleAccountList
    \/ HandleAccountAuth

SpecReconnect == InitReconnect /\ [][NextReconnect]_vars

---------------------------------------------------------------------------
(* The websocket copier (trade_copier.py), destination connection.  Each     *)
(* CTraderConnection reads its websocket with _receive_message, one message  *)
(* per call, in the order of arrival.  After connect() the destination's     *)
(* websocket is read only by get_balance.                                    *)

\* TradeCopier(..., lot_percentage=0.02): main, and the default of line 326.
lot_percentage == Rat(2, 100)

\* Balances of the destination, in cents, the server may report.
WsBalances == {1000000, 2500000}

\* Volumes of the source fills handed to _handle_master_trade.
WsVolumes == {1000, 3000}

WsMessage(payloadType, balance) ==
    [payloadType |-> payloadType, balance |-> balance]

\* The message the server sends for a request of the destination connection.
ResponseTo(r, balance) ==
    CASE r.type = "PROTO_OA_TRADER_REQ" ->
            WsMessage("PROTO_OA_TRADER_RES", balance)
      [] r.type = "PROTO_OA_SUBSCRIBE_SPOTS_REQ" ->
            WsMessage("PROTO_OA_SUBSCRIBE_SPOTS_RES", 0)
      [] r.type = "PROTO_OA_GET_POSITIONS_REQ" ->
            WsMessage("PROTO_OA_GET_POSITIONS_RES", 0)
      [] OTHER -> WsMessage("PROTO_OA_EXECUTION_EVENT", 0)

WsRequestTypes ==
    {"PROTO_OA_TRADER_REQ", "PROTO_OA_SUBSCRIBE_SPOTS_REQ",
     "PROTO_OA_GET_POSITIONS_REQ", "PROTO_OA_NEW_ORDER_REQ"}

\* get_balance (lines 176-193) from the response on: the next message of the
\* websocket is taken as the reply; balance / 100 of a PROTO_OA_TRADER_RES,
\* 0.0 for any other message.  The balance is kept in cents.
GetBalance(messages) ==
    [balance |-> IF Head(messages).payloadType = "PROTO_OA_TRADER_RES"
                 THEN Head(messages).balance ELSE 0,
     read |-> 1]

\* TradeCopier._calculate_adjusted_volume (lines 384-404):
\* max(int(slave_balance * lot_percentage * 10), 1000), balance in cents.
BalanceAdjustedVolume(balance_cents) ==
    Max(Trunc(Rat(balance_cents * lot_percentage.num * 10,
                  100 * lot_percentage.den)), 1000)

\* The state after connect() of both connections (lines 62-80, 115-174): the
\* destination is authorised and _get_account_info has sent a spot
\* subscription and a positions request whose replies it does not read.
InitWs ==
    /\ is_connected = FALSE
    /\ is_app_authorized = FALSE
    /\ master_authorized = FALSE
    /\ slave_authorized = FALSE
    /\ master_data_loaded = FALSE
    /\ slave_data_loaded = FALSE
    /\ master_symbols = << >>
    /\ slave_symbols = << >>
    /\ master_assets = {}
    /\ slave_assets = {}
    /\ master_deposit_asset_id = 0
    /\ slave_deposit_asset_id = 0
    /\ pip_values_cache = << >>
    /\ symbol_volume_ratio = << >>
    /\ inflight = SetToBag({Plain("PROTO_OA_SUBSCRIBE_SPOTS_REQ", "slave"),
                            Plain("PROTO_OA_GET_POSITIONS_REQ", "slave")})
    /\ subscribed = {}
    /\ slave_positions = << >>
    /\ next_position_id = 1
    /\ connects = 0
    /\ fills = 0
    /\ sent = << >>
    /\ last = Idle
    /\ websocket = << >>
    /\ master_trade = NoTrade

\* The server answers a request of the destination connection: the message
\* arrives on the websocket.
WsServerResponds ==
    \E r \in BagToSet(inflight) : \E balance \in WsBalances :
        /\ r.type \in WsRequestTypes
        /\ websocket' = Append(websocket, ResponseTo(r, balance))
        /\ inflight' = Answer(r, {})
        /\ sent' = << >>
        /\ last' = Idle
        /\ UNCHANGED <<authVars, dataVars, tradeVars, serverVars, connects,
                       fills, master_trade>>

\* _handle_master_trade (lines 355-382) up to the await in get_balance: the
\* trader request is sent (lines 178-185).  listen_for_trades awaits the
\* callback, so one trade is handled at a time.
HandleMasterTrade ==
    \E volume \in WsVolumes :
        /\ ~master_trade.awaiting
        /\ fills < MaxFills
        /\ fills' = fills + 1
        /\ master_trade' = [awaiting |-> TRUE, volume |-> volume]
        /\ inflight' = Send({Plain("PROTO_OA_TRADER_REQ", "slave")})
        /\ sent' = <<Plain("PROTO_OA_TRADER_REQ", "slave")>>
        /\ last' = [handler |-> "get_balance"]
        /\ UNCHANGED <<authVars, dataVars, tradeVars, serverVars, connects,
                       websocket>>

\* _handle_master_trade from the return of _receive_message on: get_balance
\* returns, the volume is adjusted and place_order (lines 195-225) sends the
\* order.  Symbol and side of the order are those of the signal; they are
\* fixed here, the volume is what depends on the balance.
MasterTradeCopied ==
    /\ master_trade.awaiting
    /\ websocket # << >>
    /\ LET got == GetBalance(websocket)
           adjusted_volume == BalanceAdjustedVolume(got.balance)
           order == Req("PROTO_OA_NEW_ORDER_REQ", "slave", 1, "BUY",
                        adjusted_volume, 0)
       IN  /\ websocket' = SubSeq(websocket, got.read + 1, Len(websocket))
           /\ inflight' = Send({order})
           /\ sent' = <<order>>
           /\ last' = [handler |-> "_handle_master_trade",
                       response |-> websocket[got.read],
                       slave_balance |-> got.balance,
                       volume |-> master_trade.volume]
    /\ master_trade' = NoTrade
    /\ UNCHANGED <<authVars, dataVars, tradeVars, serverVars, connects, fills>>

NextWs ==
    \/ HandleMasterTrade
    \/ MasterTradeCopied
    \/ WsServerResponds

SpecWs == InitWs /\ [][NextWs]_vars

---------------------------------------------------------------------------
(* Properties.  `last' and `sent' describe the callback that has just run. *)

HandledFill ==
    /\ last.handler = "_handle_execution_event"
    /\ last.event.account = "master"
    /\ IsFill(last.event)

\* The close detail of the event has a character that is not a blank.
DetailHasContent(ev) ==
    /\ ev.deal.present
    /\ ev.deal.closePositionDetail.present
    /\ \E k \in DOMAIN ev.deal.closePositionDetail.text :
          ev.deal.closePositionDetail.text[k] # " "

\* The close detail of the event is there and is empty or all blanks.
DetailIsBlank(ev) ==
    /\ ev.deal.present
    /\ ev.deal.closePositionDetail.present
    /\ \A k \in DOMAIN ev.deal.closePositionDetail.text :
          ev.deal.closePositionDetail.text[k] = " "

ClosingOrderFlag(ev) == ev.order.present /\ ev.order.closingOrder

SentTypes == {sent[k].type : k \in DOMAIN sent}

\* C1: a fill of the source is classified Close exactly when its deal has a
\* closePositionDetail with content after trimming or its order has the
\* closingOrder flag, and Open otherwise; a classified event starts a position
\* lookup when it is a Close and never when it is an Open.
C1_CloseIffDetailOrClosingOrder ==
    HandledFill =>
        LET close == DetailHasContent(last.event) \/ ClosingOrderFlag(last.event)
        IN  /\ last.is_closing_order = close
            /\ last.outcome # "incomplete" =>
                  /\ close => last.outcome = "close" /\ SentTypes = {"Reconcile"}
                  /\ ~close => /\ last.outcome \in {"open", "not_authorized"}
                               /\ "Reconcile" \notin SentTypes

\* C1, witness: no closePositionDetail, order.closingOrder true, handled as a
\* Close.
C1_Witness ==
    /\ HandledFill
    /\ last.event.deal.present
    /\ ~last.event.deal.closePositionDetail.present
    /\ ClosingOrderFlag(last.event)
    /\ last.outcome = "close"
    /\ SentTypes = {"Reconcile"}

---------------------------------------------------------------------------
(* Opens. *)

HandledOpen == HandledFill /\ last.outcome = "open"

\* Comparison, product and quotient of rationals.
RatLeq(a, b) == a.num * b.den <= b.num * a.den
RatMul(a, b) == Rat(a.num * b.num, a.den * b.den)
RatDiv(a, b) == Rat(a.num * b.den, a.den * b.num)

\* round(x) of a non-negative rational, halves to even.
Round(r) ==
    LET q == r.num \div r.den
        m == r.num % r.den
    IN  IF 2 * m < r.den THEN q
        ELSE IF 2 * m > r.den THEN q + 1
        ELSE IF q % 2 = 0 THEN q ELSE q + 1

Clamp(x, lo, hi) == IF RatLeq(x, lo) THEN lo ELSE IF RatLeq(hi, x) THEN hi ELSE x

\* max(minLotSize, round(v * clamp(sourcePip / destPip * g, 0.001, maxLotMultiplier))).
RiskVolume(v, sourcePip, destPip, g) ==
    Max(MIN_LOT_SIZE,
        Round(RatMul(Rat(v, 1),
                     Clamp(RatMul(RatDiv(sourcePip, destPip), g),
                           Rat(1, 1000), Rat(MAX_LOT_MULTIPLIER, 1)))))

\* C3: when the pip value of the instrument is available on both accounts the
\* volume of the open order is max(minLotSize, round(v * clamp(sourcePip /
\* destPip * globalRiskRatio, 0.001, maxLotMultiplier))), with globalRiskRatio
\* 1.0 (the default) or the configured DYNAMIC_PIP_VOLUME_RATIO.
C3_RiskEquivalentVolume ==
    LET i == last.details.symbolId
        sourcePip == CalculatePipValue(i, "master")
        destPip == CalculatePipValue(i, "slave")
    IN  (HandledOpen /\ Truthy(sourcePip) /\ Truthy(destPip)) =>
            sent[1].volume \in
                {RiskVolume(last.details.volume, sourcePip, destPip, Rat(1, 1)),
                 RiskVolume(last.details.volume, sourcePip, destPip,
                            DYNAMIC_PIP_VOLUME_RATIO)}

\* C4: the volume of every open order sent to the destination is at least the
\* minimum lot size, whatever the source volume, reference data and prices.
C4_VolumeAtLeastMinLot ==
    \A k \in DOMAIN sent :
        sent[k].type = "NewOrder" => sent[k].volume >= MIN_LOT_SIZE

\* C4, witness: an open of a source volume whose half is below the minimum lot
\* size, sent with exactly the minimum lot size.
C4_Witness ==
    /\ HandledOpen
    /\ 2 * last.details.volume < MIN_LOT_SIZE
    /\ sent[1].type = "NewOrder"
    /\ sent[1].volume = MIN_LOT_SIZE

\* C5: the volume of an open order is never more than MAX_LOT_MULTIPLIER times
\* the volume of the source fill.
C5_VolumeAtMostMaxMultiplier ==
    HandledOpen => sent[1].volume <= MAX_LOT_MULTIPLIER * last.details.volume

\* C6: after an Open of instrument i with source volume v is copied, the ratio
\* stored for i is adjustedVolume / v and the ratio of every other instrument
\* is as before.
C6_RatioStoredForInstrument ==
    [][(last'.handler = "_handle_execution_event" /\ last'.outcome = "open") =>
          LET i == last'.details.symbolId
              v == last'.details.volume
          IN  /\ i \in DOMAIN symbol_volume_ratio'
              /\ symbol_volume_ratio'[i] = Rat(sent'[1].volume, v)
              /\ \A j \in (DOMAIN symbol_volume_ratio
                              \cup DOMAIN symbol_volume_ratio') \ {i} :
                    /\ j \in DOMAIN symbol_volume_ratio
                    /\ j \in DOMAIN symbol_volume_ratio'
                    /\ symbol_volume_ratio'[j] = symbol_volume_ratio[j]]_vars

---------------------------------------------------------------------------
(* Closes. *)

HandledLookup == last.handler = "_handle_positions_for_close"

\* The positions of the lookup response with the instrument of the Close.
Matching == {k \in DOMAIN slave_positions :
                slave_positions[k].symbolId = last.symbol_id}

\* ratio[i], 1.0 if never set.
StoredRatio(i) ==
    IF i \in DOMAIN symbol_volume_ratio THEN symbol_volume_ratio[i]
    ELSE [num |-> 1, den |-> 1]

\* The destination's volume step, the minimum lot size if absent or <= 0.
RoundingStep(i) ==
    IF i \in DOMAIN slave_symbols /\ slave_symbols[i].volume_step > 0
    THEN slave_symbols[i].volume_step ELSE MIN_LOT_SIZE

\* floor(floor(V * r) / s) * s.
RoundedTarget(V, r, s) == (((V * r.num) \div r.den) \div s) * s

\* C7: for a Close of source volume V on instrument i with a matching
\* destination position of volume C, the close request has the volume
\* floor(floor(V * r) / s) * s, or C when C minus that is <= s.
C7_CloseVolume ==
    (HandledLookup /\ Matching # {}) =>
        LET r == StoredRatio(last.symbol_id)
            s == RoundingStep(last.symbol_id)
            target == RoundedTarget(last.master_close_volume, r, s)
        IN  /\ Len(sent) = 1
            /\ sent[1].type = "ClosePosition"
            /\ \E k \in Matching :
                  LET C == slave_positions[k].volume
                  IN  /\ sent[1].positionId = slave_positions[k].positionId
                      /\ sent[1].volume = IF C - target <= s THEN C ELSE target

\* C7, witness: a partial close under a stored ratio other than 1.
C7_Witness ==
    /\ HandledLookup
    /\ Matching # {}
    /\ last.symbol_id \in DOMAIN symbol_volume_ratio
    /\ symbol_volume_ratio[last.symbol_id].num # symbol_volume_ratio[last.symbol_id].den
    /\ sent[1].volume > 0
    /\ \A k \in Matching : sent[1].volume < slave_positions[k].volume

\* C8: the volume of a close request is a multiple of the step or exactly the
\* current volume of the destination position.
C8_MultipleOfStepOrWhole ==
    (HandledLookup /\ sent # << >>) =>
        \/ sent[1].volume % RoundingStep(last.symbol_id) = 0
        \/ \E k \in Matching :
              /\ sent[1].positionId = slave_positions[k].positionId
              /\ sent[1].volume = slave_positions[k].volume

\* C8, witness: one close request of a whole position whose volume is not a
\* multiple of the step, and (another state) a partial one that is a multiple.
C8_Witness ==
    /\ HandledLookup
    /\ sent # << >>
    /\ sent[1].volume % RoundingStep(last.symbol_id) # 0
    /\ last.master_close_volume * StoredRatio(last.symbol_id).num
          >= RoundingStep(last.symbol_id) * StoredRatio(last.symbol_id).den

\* C9: no close request is issued when the close volume rounds down to 0 and
\* the whole-position rule does not apply, i.e. no close request has volume 0.
C9_NoRequestForZeroVolume ==
    HandledLookup =>
        \A k \in DOMAIN sent :
            sent[k].type = "ClosePosition" => sent[k].volume > 0

\* C10: when the lookup response has no position of the closed instrument, the
\* callback emits no request, leaves the ratio map as it is and leaves the
\* copier connected and authorised, so that later events are handled.
C10_NoMatchNoRequest ==
    [][(/\ last'.handler = "_handle_positions_for_close"
        /\ \A k \in DOMAIN slave_positions :
              slave_positions[k].symbolId # last'.symbol_id) =>
          /\ sent' = << >>
          /\ \A q \in BagToSet(inflight') :
                q.type = "ClosePosition" => q \in BagToSet(inflight)
          /\ symbol_volume_ratio' = symbol_volume_ratio
          /\ is_connected' /\ master_authorized' /\ slave_authorized']_vars

\* C10, witness: a lookup answered with positions of other instruments only.
C10_Witness ==
    /\ HandledLookup
    /\ slave_positions # << >>
    /\ Matching = {}
    /\ DOMAIN symbol_volume_ratio # {}
    /\ sent = << >>

\* C11: the handling of a Close (the lookup request, its response, the close
\* request and its execution) never changes the ratio map; only the copy of
\* an Open writes it, so a ratio outlives the position it was stored for.
C11_CloseKeepsRatios ==
    [][~(last'.handler = "_handle_execution_event" /\ last'.outcome = "open")
          => symbol_volume_ratio' = symbol_volume_ratio]_vars

\* C11, witness: the only position of the destination has been closed as a
\* whole and the ratio stored at its open is still in the map.
C11_Witness ==
    /\ last = Idle
    /\ next_position_id = 2
    /\ slave_positions = << >>
    /\ BagToSet(inflight) = {}
    /\ 1 \in DOMAIN symbol_volume_ratio
    /\ symbol_volume_ratio[1] = Rat(1, 2)

---------------------------------------------------------------------------
(* Authorisation and addressing. *)

ReplicationTypes == {"NewOrder", "Reconcile", "ClosePosition"}

\* C12: no open order, position lookup or close request is sent for the
\* destination account unless the destination account is authorised.
C12_NoReplicationUnlessAuthorized ==
    \A k \in DOMAIN sent :
        sent[k].type \in ReplicationTypes => slave_authorized

\* C13: every open-order request and every close-position request of the
\* copier, just sent or still unanswered, carries the destination account id.
C13_OrdersAddressDestination ==
    \A r \in BagToSet(inflight) \cup Range(sent) :
        r.type \in {"NewOrder", "ClosePosition"} => r.account = "slave"

\* C13, witness: a close request has just been sent while an open order is
\* unanswered.
C13_Witness ==
    /\ HandledLookup
    /\ sent # << >>
    /\ sent[1].type = "ClosePosition"
    /\ sent[1].account = "slave"
    /\ \E r \in BagToSet(inflight) : r.type = "NewOrder" /\ r.account = "slave"

---------------------------------------------------------------------------
(* The fields of an event. *)

\* Field f of the event from the first of deal, order.tradeData and the
\* top-level fields that supplies it (`none' is the value of a field not there).
FirstSupplied(ev, f, none) ==
    IF ev.deal.present /\ ev.deal.data[f] # none THEN ev.deal.data[f]
    ELSE IF /\ ev.order.present
            /\ ev.order.tradeData.present
            /\ ev.order.tradeData.data[f] # none
         THEN ev.order.tradeData.data[f]
    ELSE ev.top[f]

\* C14: for a fill event each of instrument id, side and volume is taken from
\* the deal when the deal supplies it, otherwise from order.tradeData when
\* that supplies it, otherwise from the top-level fields of the event.
C14_FieldsFromFirstSupplier ==
    HandledFill =>
        last.details = [symbolId |-> FirstSupplied(last.event, "symbolId", 0),
                        tradeSide |-> FirstSupplied(last.event, "tradeSide", "None"),
                        volume |-> FirstSupplied(last.event, "volume", 0)]

\* No source of the event supplies the instrument id, the side or the volume.
Unresolvable(ev) ==
    \/ FirstSupplied(ev, "symbolId", 0) = 0
    \/ FirstSupplied(ev, "tradeSide", "None") = "None"
    \/ FirstSupplied(ev, "volume", 0) = 0

\* C15: a fill event whose instrument id, side or volume no source supplies
\* is discarded: nothing is sent, and the ratio map, the prices and the
\* pip-value cache are as before.
C15_UnresolvableIsDiscarded ==
    [][(/\ last'.handler = "_handle_execution_event"
        /\ last'.event.account = "master"
        /\ IsFill(last'.event)
        /\ Unresolvable(last'.event)) =>
          /\ last'.outcome = "incomplete"
          /\ sent' = << >>
          /\ inflight' = inflight
          /\ symbol_volume_ratio' = symbol_volume_ratio
          /\ pip_values_cache' = pip_values_cache
          /\ master_symbols' = master_symbols
          /\ slave_symbols' = slave_symbols]_vars

\* C15, witness: a fill with a close detail and an instrument id whose side no
\* source supplies has been discarded while the destination is authorised.
C15_Witness ==
    /\ HandledFill
    /\ slave_authorized
    /\ last.event.deal.present
    /\ last.event.deal.data.symbolId # 0
    /\ last.event.deal.data.volume # 0
    /\ FirstSupplied(last.event, "tradeSide", "None") = "None"
    /\ last.outcome = "incomplete"
    /\ sent = << >>

\* C16: an execution event of the source whose executionType is neither fill
\* nor partial fill is not classified: nothing is sent and the ratio map, the
\* pip-value cache and the symbol data are as before.
C16_OtherExecutionTypesIgnored ==
    [][(/\ last'.handler = "_handle_execution_event"
        /\ last'.event.account = "master"
        /\ last'.event.executionType \notin {3, 4}) =>
          /\ last'.outcome = "not_handled"
          /\ ~last'.is_closing_order
          /\ sent' = << >>
          /\ inflight' = inflight
          /\ symbol_volume_ratio' = symbol_volume_ratio
          /\ pip_values_cache' = pip_values_cache
          /\ master_symbols' = master_symbols
          /\ slave_symbols' = slave_symbols]_vars

\* C16, witness: an event of type 2 with a complete deal has been ignored
\* while the destination is authorised and a ratio is stored.
C16_Witness ==
    /\ last.handler = "_handle_execution_event"
    /\ last.event.account = "master"
    /\ last.event.executionType = 2
    /\ last.event.deal.present
    /\ DetailsComplete(last.event.deal.data)
    /\ slave_authorized
    /\ DOMAIN symbol_volume_ratio # {}
    /\ last.outcome = "not_handled"
    /\ sent = << >>

---------------------------------------------------------------------------
(* Pip values. *)

SymbolsOf(a) == IF a = "master" THEN master_symbols ELSE slave_symbols
AssetsOf(a) == IF a = "master" THEN master_assets ELSE slave_assets
DepositOf(a) ==
    IF a = "master" THEN master_deposit_asset_id ELSE slave_deposit_asset_id

\* The instrument of the last open is loaded on account a with a deposit asset
\* of the asset table.
PipInputs(a) ==
    /\ HandledOpen
    /\ last.pip_values.symbol_id \in DOMAIN SymbolsOf(a)
    /\ DepositOf(a) \in AssetsOf(a)

PipSymbol(a) == SymbolsOf(a)[last.pip_values.symbol_id]

\* 10^-pipPosition * lotSize.
PipSizeTimesLot(sd) ==
    [ok |-> TRUE,
     num |-> Rat(sd.lot_size, Pow10(sd.pip_position)).num,
     den |-> Rat(sd.lot_size, Pow10(sd.pip_position)).den]

C18_ConvertedNeedsBidAndAsk ==
    \A a \in Accounts :
        (/\ PipInputs(a)
         /\ PipSymbol(a).quote_asset_id \in AssetsOf(a)
         /\ PipSymbol(a).quote_asset_id # DepositOf(a)) =>
            LET sd == PipSymbol(a)
                pv == last.pip_values[a]
            IN  /\ pv.ok <=> (sd.bid_raw > 0 /\ sd.ask_raw > 0)
                /\ pv.ok =>
                      pv.num * Pow10(sd.pip_position) * (sd.bid_raw + sd.ask_raw)
                         = pv.den * sd.lot_size * 2 * Pow10(sd.digits)
                /\ ~pv.ok => pv = NoValue

\* C18, witness: a bid and no ask cached, no pip value.
C18_Witness ==
    /\ PipInputs("slave")
    /\ PipSymbol("slave").quote_asset_id \in AssetsOf("slave")
    /\ PipSymbol("slave").quote_asset_id # DepositOf("slave")
    /\ PipSymbol("slave").bid_raw > 0
    /\ PipSymbol("slave").ask_raw = 0
    /\ last.pip_values.slave = NoValue

---------------------------------------------------------------------------
(* The static multipliers. *)

\* The global override if one is set, else the multiplier of the table for the
\* instrument, else the default multiplier.
StaticMultiplier(symbol) ==
    IF GLOBAL_LOT_MULTIPLIER.set
    THEN [num |-> GLOBAL_LOT_MULTIPLIER.num, den |-> GLOBAL_LOT_MULTIPLIER.den]
    ELSE IF symbol \in DOMAIN LOT_SIZE_MULTIPLIERS THEN LOT_SIZE_MULTIPLIERS[symbol]
    ELSE DEFAULT_LOT_MULTIPLIER

\* C20: when the pip value is unavailable on either account, the open is
\* copied with the volume max(minLotSize, round(originalVolume * m)), m the
\* global override, else the multiplier of the instrument, else the default.
C20_StaticMultiplierFallback ==
    (/\ HandledOpen
     /\ ~(Truthy(last.pip_values.master) /\ Truthy(last.pip_values.slave))) =>
        /\ Len(sent) = 1
        /\ sent[1].type = "NewOrder"
        /\ sent[1].volume =
              Max(MIN_LOT_SIZE,
                  Round(RatMul(Rat(last.details.volume, 1),
                               StaticMultiplier(GetSymbolName(last.details.symbolId)))))

---------------------------------------------------------------------------
(* Reference data. *)

LoadedFlag(a) == IF a = "master" THEN master_data_loaded ELSE slave_data_loaded

\* C21: an account is marked ready only if its deposit-asset id is set and at
\* least one asset and at least one instrument are loaded for it.
C21_ReadyOnlyWithData ==
    \A a \in Accounts :
        LoadedFlag(a) =>
            /\ DepositOf(a) # 0
            /\ AssetsOf(a) # {}
            /\ DOMAIN SymbolsOf(a) # {}

\* C21, witness: the asset list of the destination has just made it ready,
\* while the source, whose trader response was empty, is not.
C21_Witness ==
    /\ last.handler = "_handle_asset_list"
    /\ last.account = "slave"
    /\ slave_data_loaded
    /\ ~master_data_loaded
    /\ master_deposit_asset_id = 0
    /\ master_assets # {}
    /\ DOMAIN master_symbols # {}

\* The symbol data but for the quote.
WithoutQuote(sd) == [sd EXCEPT !.bid_raw = 0, !.ask_raw = 0]

\* C22: a price update for an instrument not loaded for its account, or for
\* an account that is neither source nor destination, changes nothing; a
\* price update for a loaded instrument changes only the bid and ask of that
\* instrument on that account.  No request is sent and the ratio map, the
\* pip-value cache and the other reference data are as before.
C22_SpotEventFrame ==
    [][last'.handler = "_handle_spot_event" =>
          LET a == last'.account
              i == last'.symbol_id
              before == IF a = "master" THEN master_symbols ELSE slave_symbols
              after == IF a = "master" THEN master_symbols' ELSE slave_symbols'
          IN  /\ sent' = << >>
              /\ inflight' = inflight
              /\ UNCHANGED <<symbol_volume_ratio, pip_values_cache,
                             master_assets, slave_assets,
                             master_deposit_asset_id, slave_deposit_asset_id,
                             master_data_loaded, slave_data_loaded, authVars>>
              /\ (a \notin Accounts \/ i \notin DOMAIN before) =>
                    UNCHANGED <<master_symbols, slave_symbols>>
              /\ a # "master" => UNCHANGED master_symbols
              /\ a # "slave" => UNCHANGED slave_symbols
              /\ (a \in Accounts /\ i \in DOMAIN before) =>
                    /\ DOMAIN after = DOMAIN before
                    /\ \A j \in DOMAIN before \ {i} : after[j] = before[j]
                    /\ WithoutQuote(after[i]) = WithoutQuote(before[i])]_vars

\* C22, witness: a spot event of a loaded instrument of the destination has
\* set its bid while the source, also loaded, has no quote and a ratio is
\* stored.
C22_Witness ==
    /\ last.handler = "_handle_spot_event"
    /\ last.account = "slave"
    /\ last.symbol_id \in DOMAIN slave_symbols
    /\ slave_symbols[last.symbol_id].bid_raw # 0
    /\ last.symbol_id \in DOMAIN master_symbols
    /\ master_symbols[last.symbol_id].bid_raw = 0
    /\ DOMAIN symbol_volume_ratio # {}

\* C23: the step used to round a close volume is > 0, and it is the
\* configured minimum lot size when the destination has no step for the
\* instrument or a step <= 0.
C23_RoundingStepPositive ==
    (HandledLookup /\ sent # << >>) =>
        LET i == last.symbol_id
        IN  /\ last.step > 0
            /\ (i \notin DOMAIN slave_symbols \/ slave_symbols[i].volume_step <= 0)
                  => last.step = MIN_LOT_SIZE
            /\ (i \in DOMAIN slave_symbols /\ slave_symbols[i].volume_step > 0)
                  => last.step = slave_symbols[i].volume_step

\* C23, witness: a close volume has been rounded for an instrument the
\* destination has loaded with a step of 0.
C23_Witness ==
    /\ HandledLookup
    /\ sent # << >>
    /\ last.symbol_id \in DOMAIN slave_symbols
    /\ slave_symbols[last.symbol_id].volume_step <= 0
    /\ last.step = MIN_LOT_SIZE
    /\ sent[1].volume > 0
    /\ sent[1].volume < last.position.volume

\* C24: whenever both pip values are positive, the multiplier applied to the
\* source volume of a copied open, order volume / source volume, lies in
\* [0.001, MAX_LOT_MULTIPLIER].
C24_AppliedMultiplierInRange ==
    (/\ HandledOpen
     /\ Truthy(last.pip_values.master)
     /\ Truthy(last.pip_values.slave)) =>
        /\ last.details.volume <= 1000 * sent[1].volume
        /\ sent[1].volume <= MAX_LOT_MULTIPLIER * last.details.volume

---------------------------------------------------------------------------
(* Failures. *)

\* The callback that has just run met a recoverable failure: an incomplete
\* event, an unauthorised destination, a volume calculation that raised (every
\* open: the fallback of line 546), a lookup with no position to close, or a
\* request answered with an error.
RecoverableFailure ==
    \/ HandledFill /\ last.outcome \in {"incomplete", "not_authorized", "open"}
    \/ HandledLookup /\ ~last.found
    \/ last.handler = "_on_error"

\* C25: after a recoverable failure in one callback the copier is still
\* connected and authorised, and every message delivered next is handled:
\* each execution event of the source and each lookup response.
C25_FailuresDoNotStopProcessing ==
    RecoverableFailure =>
        /\ is_connected
        /\ master_authorized
        /\ fills < MaxFills =>
              \A ev \in FaultEvents : ENABLED HandleExecutionEvent(ev)
        /\ (slave_authorized /\ Pending("Reconcile") # {}) =>
              ENABLED HandlePositionsForClose

\* C25, witness: a lookup has found no position after an earlier event was
\* discarded as incomplete, and a further event can be delivered.
C25_Witness ==
    /\ HandledLookup
    /\ ~last.found
    /\ fills = 2
    /\ fills < MaxFills
    /\ symbol_volume_ratio = << >>
    /\ BagToSet(inflight) = {}

---------------------------------------------------------------------------
(* Unanswered requests. *)

\* The requests that were outstanding when the callback that has just run
\* started: those in flight without the ones it sent.
OutstandingBefore == BagToSet(inflight (-) SetToBag(Range(sent)))

\* A reference-data request, or a position lookup of an instrument other
\* than i, was outstanding.
StalledFor(i) ==
    \E r \in OutstandingBefore :
        \/ r.type \in {"Trader", "AssetList", "SymbolById"}
        \/ r.type = "Reconcile" /\ r.symbolId # i

\* C26: a complete non-closing fill of the source on instrument i, handled
\* while a reference-data request or a lookup of another instrument is
\* outstanding, is copied at once: its order on i is sent, the outstanding
\* requests stay outstanding, and no close is sent before its lookup response.
\* While requests are outstanding every further source event can be handled.
C26_StalledRequestsHoldNothingElse ==
    /\ (/\ HandledFill
        /\ DetailsComplete(TradeDetails(last.event))
        /\ ~IsClosingOrder(last.event)
        /\ StalledFor(TradeDetails(last.event).symbolId)) =>
            /\ last.outcome = "open"
            /\ Len(sent) = 1
            /\ sent[1].type = "NewOrder"
            /\ sent[1].symbolId = TradeDetails(last.event).symbolId
    /\ HandledFill => \A k \in DOMAIN sent : sent[k].type # "ClosePosition"
    /\ (inflight # EmptyBag /\ fills < MaxFills) =>
            \A ev \in StallEvents : ENABLED HandleExecutionEvent(ev)

\* C26, witness: an open of instrument 1 has just been copied while a lookup
\* of instrument 41 and all six reference-data requests are unanswered.
C26_Witness ==
    /\ HandledOpen
    /\ sent[1].symbolId = 1
    /\ \E r \in OutstandingBefore : r.type = "Reconcile" /\ r.symbolId = 41
    /\ \A t \in {"Trader", "AssetList", "SymbolById"} :
          \A a \in Accounts : Plain(t, a) \in OutstandingBefore

---------------------------------------------------------------------------
(* Failed requests. *)

\* The number of requests of the type in flight.
InFlight(type) ==
    LET reqs == Pending(type)
        Sum[S \in SUBSET reqs] ==
            IF S = {} THEN 0
            ELSE LET r == CHOOSE q \in S : TRUE
                 IN  CopiesIn(r, inflight) + Sum[S \ {r}]
    IN  Sum[reqs]

\* The request sent by the step, of the type.
Sends(type) == \E k \in DOMAIN sent' : sent'[k].type = type

\* C27: the errback of a failed request sends nothing and changes nothing but
\* the request's removal.  An order is sent only by the handling of a source
\* fill classified Open, a lookup only by the handling of a source fill
\* classified Close, one per fill; a close request only by the response of a
\* lookup, one per lookup.  So the orders, lookups and close requests in
\* flight and the orders filled never outnumber the source fills.
C27_FailedRequestsNotResent ==
    /\ [](InFlight("NewOrder") + InFlight("Reconcile")
            + InFlight("ClosePosition") + (next_position_id - 1) <= fills)
    /\ [][/\ last'.handler = "_on_error" =>
                /\ sent' = << >>
                /\ inflight' = inflight (-) SetToBag({last'.request})
                /\ UNCHANGED <<authVars, dataVars, tradeVars, serverVars, fills>>
          /\ Sends("NewOrder") =>
                /\ last'.handler = "_handle_execution_event"
                /\ last'.outcome = "open"
                /\ Len(sent') = 1
                /\ fills' = fills + 1
          /\ Sends("Reconcile") =>
                /\ last'.handler = "_handle_execution_event"
                /\ last'.outcome = "close"
                /\ Len(sent') = 1
                /\ fills' = fills + 1
          /\ Sends("ClosePosition") =>
                /\ last'.handler = "_handle_positions_for_close"
                /\ Len(sent') = 1
                /\ InFlight("Reconcile")' = InFlight("Reconcile") - 1
                /\ fills' = fills]_vars

\* C27, witness: the close request of a copied Close was rejected; nothing is
\* in flight afterwards and the destination position is still open.
C27_Witness ==
    /\ last.handler = "_on_error"
    /\ last.request.type = "ClosePosition"
    /\ inflight = EmptyBag
    /\ sent = << >>
    /\ slave_positions # << >>
    /\ fills = 2

---------------------------------------------------------------------------
(* Opens between a Close and its lookup response. *)

\* C28: the ratio a lookup response applies to its Close is the ratio the
\* instrument had when the Close event was handled; Opens handled in between
\* do not change it.
C28_RatioOfCloseFixedAtEvent ==
    (HandledLookup /\ sent # << >> /\ last.ratio_at_event.num # 0) =>
        last.ratio = last.ratio_at_event

---------------------------------------------------------------------------
(* Round trips. *)

\* The source has opened the instrument and closed all of it, the copied
\* order is filled, every lookup response has been delivered, and every close
\* request is executed or refused.
RoundTripDone ==
    /\ fills = MaxFills
    /\ Pending("NewOrder") = {}
    /\ Pending("Reconcile") = {}
    /\ \A r \in Pending("ClosePosition") : Refused(r)

\* C29: after a round trip of the source on an instrument, with every lookup
\* response delivered while the destination position was there, the
\* destination holds no open volume of the instrument.
C29_RoundTripLeavesNothingOpen ==
    RoundTripDone =>
        \A k \in DOMAIN slave_positions :
            slave_positions[k].symbolId # RoundTripSymbol

---------------------------------------------------------------------------
(* Events of other accounts. *)

\* C30: an execution event of an account other than the source, such as the
\* fill of a copied order, is ignored: the handler sends no request and
\* changes nothing of the copier or of the requests in flight.
C30_OtherAccountsIgnored ==
    [][(/\ last'.handler = "_handle_execution_event"
        /\ last'.event.account # "master") =>
            /\ last'.outcome = "ignored"
            /\ sent' = << >>
            /\ inflight' = inflight
            /\ UNCHANGED <<authVars, dataVars, tradeVars, serverVars,
                           connects, fills>>]_vars

\* C30, witness: the fill event of a copied order, a complete non-closing
\* fill, has just been ignored.
C30_Witness ==
    /\ last.handler = "_handle_execution_event"
    /\ last.event.account = "slave"
    /\ IsFill(last.event)
    /\ DetailsComplete(TradeDetails(last.event))
    /\ ~IsClosingOrder(last.event)
    /\ last.outcome = "ignored"
    /\ sent = << >>
    /\ \E k \in DOMAIN slave_positions :
          last.event = FillEventOf(slave_positions[k])
    /\ Pending("NewOrder") = {}

---------------------------------------------------------------------------
(* Instrument and side of the requests. *)

\* C31: the order of a copied Open carries the instrument id and the side of
\* the source fill; the lookup of a Close carries the instrument id of the
\* Close event, and the close request it leads to names a destination position
\* of that instrument.
C31_RequestsCarryInstrumentAndSide ==
    /\ HandledOpen =>
          /\ sent[1].symbolId = last.event.deal.data.symbolId
          /\ sent[1].side = last.event.deal.data.tradeSide
          /\ sent[1].side \in {"BUY", "SELL"}
    /\ (HandledFill /\ last.outcome = "close") =>
          sent[1].symbolId = last.event.deal.data.symbolId
    /\ (HandledLookup /\ sent # << >>) =>
          \E k \in DOMAIN slave_positions :
              /\ slave_positions[k].positionId = sent[1].positionId
              /\ slave_positions[k].symbolId = last.symbol_id

\* C31, witness: a SELL fill of the source on instrument 41 has been copied
\* as a SELL order on instrument 41 while the destination holds a position of
\* another instrument.
C31_Witness ==
    /\ HandledOpen
    /\ last.event.deal.data.tradeSide = "SELL"
    /\ last.event.deal.data.symbolId = 41
    /\ sent[1].side = "SELL"
    /\ sent[1].symbolId = 41
    /\ \E k \in DOMAIN slave_positions : slave_positions[k].symbolId = 1

\* C31, witness of a close request: it names the position of instrument 41,
\* which is not the first position of the destination.
C31_CloseWitness ==
    /\ HandledLookup
    /\ sent # << >>
    /\ last.symbol_id = 41
    /\ slave_positions[1].symbolId = 1
    /\ sent[1].positionId # slave_positions[1].positionId

---------------------------------------------------------------------------
(* Bounds of a close request. *)

\* C32: the volume of a close request is at most the volume of the position
\* the lookup returned, and when it is smaller the volume left is more than
\* one step; also when the scaled source volume exceeds the position.
C32_CloseWithinPosition ==
    (HandledLookup /\ sent # << >>) =>
        /\ sent[1].positionId = last.position.positionId
        /\ sent[1].volume <= last.position.volume
        /\ sent[1].volume < last.position.volume =>
              last.position.volume - sent[1].volume > last.step

\* C32, witness: the scaled source volume exceeds the destination position and
\* the request closes exactly the position.
C32_Witness ==
    /\ HandledLookup
    /\ sent # << >>
    /\ last.master_close_volume * last.ratio.num
          > last.position.volume * last.ratio.den
    /\ sent[1].volume = last.position.volume

\* C32, witness of a partial close: a positive volume below the position's.
C32_PartialWitness ==
    /\ HandledLookup
    /\ sent # << >>
    /\ 0 < sent[1].volume
    /\ sent[1].volume < last.position.volume

---------------------------------------------------------------------------
(* Several Closes of one instrument in flight. *)

\* The volume of the close requests in flight for the position.
CloseVolumeInFlight(position_id) ==
    LET reqs == {r \in Pending("ClosePosition") : r.positionId = position_id}
        Sum[S \in SUBSET reqs] ==
            IF S = {} THEN 0
            ELSE LET r == CHOOSE q \in S : TRUE
                 IN  r.volume * CopiesIn(r, inflight) + Sum[S \ {r}]
    IN  Sum[reqs]

\* C33: the close requests in flight for a destination position never add up
\* to more than the volume the position holds.
C33_ClosesInFlightWithinPosition ==
    \A k \in DOMAIN slave_positions :
        CloseVolumeInFlight(slave_positions[k].positionId)
            <= slave_positions[k].volume

---------------------------------------------------------------------------
(* Termination of the volume adjustment. *)

\* C34: in the adjustment of a copied Open with both pip values available,
\* each account's pip value is computed once and the dynamic calculation
\* returns a volume: the adjustment does not end in the error fallback.
C34_AdjustmentReturnsWithoutFallback ==
    (/\ HandledOpen
     /\ Truthy(last.pip_values.master)
     /\ Truthy(last.pip_values.slave)) =>
        LET symbol == GetSymbolName(last.details.symbolId)
        IN  /\ PipValueComputations(symbol, 1) <= 1
            /\ ~CalculateDynamicPipVolume(symbol, last.details.volume, 1).raised

---------------------------------------------------------------------------
(* Readiness whatever the order of the responses. *)

\* C35: an account whose three responses have been delivered, with a deposit
\* asset id, at least one asset and at least one instrument, is marked ready,
\* whatever the order in which they arrived.
C35_ReadyInAnyOrder ==
    \A a \in Accounts :
        (/\ DepositOf(a) # 0
         /\ AssetsOf(a) # {}
         /\ DOMAIN SymbolsOf(a) # {}) => LoadedFlag(a)

---------------------------------------------------------------------------
(* The order of the authorisation steps. *)

\* The request is among those the step sends.
SendsRequest(r) == \E k \in DOMAIN sent' : sent'[k] = r

\* C36: the account list is requested only by the handling of the application
\* authorisation response, the authorisation of the source only by the
\* handling of the account list, the authorisation of the destination only by
\* the handling of the source's authorisation response.  So the flags are
\* nested: destination authorised implies source authorised implies
\* application authorised implies connected, and each request is outstanding
\* only after the step before it.
C36_AuthorizationInOrder ==
    /\ [](/\ slave_authorized => master_authorized
          /\ master_authorized => is_app_authorized
          /\ is_app_authorized => is_connected
          /\ Plain("GetAccountList", "none") \in BagToSet(inflight)
                => is_app_authorized
          /\ Plain("AccountAuth", "master") \in BagToSet(inflight)
                => is_app_authorized /\ ~master_authorized
          /\ Plain("AccountAuth", "slave") \in BagToSet(inflight)
                => master_authorized /\ ~slave_authorized)
    /\ [][/\ SendsRequest(Plain("GetAccountList", "none")) =>
                /\ last'.handler = "ProtoOAApplicationAuthRes"
                /\ ~is_app_authorized /\ is_app_authorized'
          /\ SendsRequest(Plain("AccountAuth", "master")) =>
                /\ last'.handler = "_handle_account_list"
                /\ is_app_authorized
          /\ SendsRequest(Plain("AccountAuth", "slave")) =>
                /\ last'.handler = "_handle_account_auth"
                /\ last'.account = "master"
                /\ master_authorized'
          /\ (~master_authorized /\ master_authorized') =>
                /\ last'.handler = "_handle_account_auth"
                /\ last'.account = "master"
          /\ (~slave_authorized /\ slave_authorized') =>
                /\ last'.handler = "_handle_account_auth"
                /\ last'.account = "slave"
                /\ master_authorized]_vars

\* C36, witness: both accounts are authorised, the destination's response
\* having just been handled.
C36_Witness ==
    /\ last.handler = "_handle_account_auth"
    /\ last.account = "slave"
    /\ is_connected
    /\ is_app_authorized
    /\ master_authorized
    /\ slave_authorized
    /\ Len(sent) = 3

---------------------------------------------------------------------------
(* Disconnects. *)

\* C37: a disconnect clears the connected, application-authorised,
\* source-authorised and destination-authorised flags in one step, and an
\* order is sent to the destination only while the destination is authorised:
\* none between a disconnect and the destination's next authorisation.
C37_NoCopyWhileDestinationUnauthorized ==
    /\ [][last'.handler = "_on_disconnected" =>
              /\ ~is_connected'
              /\ ~is_app_authorized'
              /\ ~master_authorized'
              /\ ~slave_authorized'
              /\ sent' = << >>]_vars
    /\ [][Sends("NewOrder") => slave_authorized /\ slave_authorized']_vars
    /\ [](~slave_authorized => Pending("NewOrder") = {})

\* C37, witness: after a disconnect and a new connection, with the source
\* authorised again and the destination not yet, an Open of the source has
\* been handled and not copied; an Open before the disconnect was copied.
C37_Witness ==
    /\ HandledFill
    /\ last.outcome = "not_authorized"
    /\ connects = 1
    /\ master_authorized
    /\ ~slave_authorized
    /\ sent = << >>
    /\ slave_positions # << >>

---------------------------------------------------------------------------
(* The balance the websocket copier uses. *)

\* C38: the message get_balance consumes as its reply is a trader-info
\* response, and the order copied has the volume computed from the balance
\* that response reports.
C38_BalanceFromOwnResponse ==
    last.handler = "_handle_master_trade" =>
        /\ last.response.payloadType = "PROTO_OA_TRADER_RES"
        /\ last.slave_balance = last.response.balance
        /\ last.slave_balance \in WsBalances
        /\ sent[1].volume = BalanceAdjustedVolume(last.response.balance)

---------------------------------------------------------------------------
(* The pip-value cache. *)

\* C39: after the volume adjustment of a copied Open of instrument i in which
\* both pip values were obtained, the cache entry of i is the pair of pip
\* values used and the other entries are as before; when a pip value was
\* unavailable the cache is as before.
C39_CacheHoldsPipValuesUsed ==
    [][(last'.handler = "_handle_execution_event" /\ last'.outcome = "open") =>
          LET i == last'.details.symbolId
              used == last'.pip_values
          IN  IF Truthy(used.master) /\ Truthy(used.slave)
              THEN /\ i \in DOMAIN pip_values_cache'
                   /\ pip_values_cache'[i] =
                         [master_pip_value |-> used.master,
                          slave_pip_value |-> used.slave]
                   /\ \A j \in (DOMAIN pip_values_cache
                                   \cup DOMAIN pip_values_cache') \ {i} :
                         /\ j \in DOMAIN pip_values_cache
                         /\ j \in DOMAIN pip_values_cache'
                         /\ pip_values_cache'[j] = pip_values_cache[j]
              ELSE pip_values_cache' = pip_values_cache]_vars

==========================================================================
